---------------------------- MODULE Spec2Model ----------------------------
(***************************************************************************)
(* Model of the animation timing engine of life_tools                      *)
(* (src/logos/create_rotating_gif_spline.py): fixed-step integration of a  *)
(* slowdown curve, loop-closure normalisation at the 270 degree threshold, *)
(* hold-still extension and the millisecond frame duration.                *)
(*                                                                         *)
(* Every number of the program is a Python float, an IEEE-754 binary64.    *)
(* The model computes with exactly those values: a float is a record       *)
(* [s, m, e] standing for (-1)^s * m * 2^e, where the magnitude m is an    *)
(* arbitrary-precision natural (a little-endian sequence of 15-bit limbs,  *)
(* since TLC's integers are 32 bits wide) that is odd or zero, and      *)
(* every arithmetic operation rounds its exact result to 53 significant    *)
(* bits, ties to even, as the hardware does.  Infinities, NaN and the sign *)
(* of zero are not modelled: no input of the model comes near them, and a  *)
(* result of math.exp or of ** beyond the doubles raises OverflowError.    *)
(***************************************************************************)
EXTENDS Integers, Sequences, FiniteSets, TLC

(***************************************************************************)
(* Arbitrary-precision naturals.                                           *)
(***************************************************************************)
LimbBits == 15
LimbBase == 32768
MantBits == 53
SubnormalExp == 1074

\* TRUE, once x has a value.  TLC evaluates an operator's argument
\* where the body first uses it, and again at every use inside an index
\* x[i] until some other use has evaluated it; an operator that starts with
\* Ready(x) evaluates x once, before anything else.
Ready(x) == x = x

\* F(val), with val evaluated once, before F: a local variable of the code.
Bind(val, F(_)) == IF Ready(val) THEN F(val) ELSE val

Pow2(k) == 2 ^ k

SetMax(S) == CHOOSE x \in S : \A y \in S : y <= x
SetMin(S) == CHOOSE x \in S : \A y \in S : x <= y

\* Number of significant bits of a limb.
IntBitLen(n) ==
    IF n = 0 THEN 0
    ELSE CHOOSE k \in 1..LimbBits : Pow2(k - 1) <= n /\ n < Pow2(k)

\* Number of trailing zero bits of a positive limb.
IntTrailZ(n) ==
    CHOOSE k \in 0..(LimbBits - 1) : n % Pow2(k) = 0 /\ n % Pow2(k + 1) # 0

\* The limbs of a without its leading zeros.
RECURSIVE BNTrim(_)
BNTrim(a) ==
    IF a = <<>> \/ a[Len(a)] # 0 THEN a ELSE BNTrim(SubSeq(a, 1, Len(a) - 1))

\* The natural 0 <= n < 2^31.
BN(n) ==
    BNTrim(<<n % LimbBase, (n \div LimbBase) % LimbBase,
             n \div (LimbBase * LimbBase)>>)

BNLimb(a, i) == IF 1 <= i /\ i <= Len(a) THEN a[i] ELSE 0

\* Value of a natural known to fit in 31 bits.
BNToInt(a) ==
    BNLimb(a, 1) + LimbBase * BNLimb(a, 2)
                 + LimbBase * LimbBase * BNLimb(a, 3)

BNIsOdd(a) == a # <<>> /\ a[1] % 2 = 1

BNBitLen(a) ==
    IF a = <<>> THEN 0 ELSE LimbBits * (Len(a) - 1) + IntBitLen(a[Len(a)])

\* -1, 0, 1 as a < b, a = b, a > b.
BNCmp(a, b) ==
    IF Len(a) < Len(b) THEN -1
    ELSE IF Len(a) > Len(b) THEN 1
    ELSE LET df == {i \in 1..Len(a) : a[i] # b[i]}
         IN  IF df = {} THEN 0
             ELSE IF a[SetMax(df)] < b[SetMax(df)] THEN -1 ELSE 1

\* a + b from limb i up, with the carry c into limb i and the limbs below
\* it in out.
RECURSIVE BNAddFrom(_, _, _, _, _)
BNAddFrom(a, b, i, c, out) ==
    IF Ready(c) /\ Ready(out) /\ i > Len(a) /\ i > Len(b)
    THEN BNTrim(Append(out, c))
    ELSE BNAddFrom(a, b, i + 1,
                   (BNLimb(a, i) + BNLimb(b, i) + c) \div LimbBase,
                   Append(out, (BNLimb(a, i) + BNLimb(b, i) + c) % LimbBase))

BNAdd(a, b) == BNAddFrom(a, b, 1, 0, <<>>)

\* a - b for a >= b from limb i up, with the borrow c out of limb i - 1.
RECURSIVE BNSubFrom(_, _, _, _, _)
BNSubFrom(a, b, i, c, out) ==
    IF Ready(c) /\ Ready(out) /\ i > Len(a) THEN BNTrim(out)
    ELSE BNSubFrom(a, b, i + 1,
                   IF a[i] - BNLimb(b, i) - c < 0 THEN 1 ELSE 0,
                   Append(out, (a[i] - BNLimb(b, i) - c + LimbBase) % LimbBase))

BNSub(a, b) == BNSubFrom(a, b, 1, 0, <<>>)

\* a * k for 0 <= k <= LimbBase: the low halves of the limb products plus
\* their high halves one limb up.
BNMulSmall(a, k) ==
    BNAdd([i \in 1..Len(a) |-> (a[i] * k) % LimbBase],
          <<0>> \o [i \in 1..Len(a) |-> (a[i] * k) \div LimbBase])

BNShlLimbs(a, n) == IF a = <<>> THEN a ELSE [i \in 1..n |-> 0] \o a

\* Column k of the product a * b, from limb i of a on: the low halves of
\* the limb products a[i] * b[k + 1 - i] and the high halves of the limb
\* products one column down.
RECURSIVE BNColumn(_, _, _, _)
BNColumn(a, b, k, i) ==
    IF i > Len(a) \/ i > k THEN 0
    ELSE ((a[i] * BNLimb(b, k + 1 - i)) % LimbBase)
         + ((a[i] * BNLimb(b, k - i)) \div LimbBase)
         + BNColumn(a, b, k, i + 1)

\* The natural whose limb i is cols[i], the columns not yet reduced below
\* LimbBase: the carries are passed up from limb i with c coming in.
RECURSIVE BNCarry(_, _, _, _)
BNCarry(cols, i, c, out) ==
    IF Ready(c) /\ Ready(out) /\ i > Len(cols) THEN BNTrim(Append(out, c))
    ELSE BNCarry(cols, i + 1, (cols[i] + c) \div LimbBase,
                 Append(out, (cols[i] + c) % LimbBase))

BNMul(a, b) ==
    BNCarry([k \in 1..(Len(a) + Len(b)) |->
                BNColumn(a, b, k, IF k > Len(b) THEN k - Len(b) ELSE 1)],
            1, 0, <<>>)

\* a * 2^k.
BNShl(a, k) ==
    IF k % LimbBits = 0 THEN BNShlLimbs(a, k \div LimbBits)
    ELSE BNShlLimbs(BNMulSmall(a, Pow2(k % LimbBits)), k \div LimbBits)

\* floor(a / 2^k).
BNShr(a, k) ==
    LET n == k \div LimbBits
        r == k % LimbBits
        p == Pow2(r)
        q == Pow2(LimbBits - r)
    IN  IF n >= Len(a) THEN <<>>
        ELSE IF r = 0 THEN SubSeq(a, n + 1, Len(a))
        ELSE BNTrim([i \in 1..(Len(a) - n) |->
                 (a[i + n] \div p) + (BNLimb(a, i + n + 1) % p) * q])

\* a mod 2^k.
BNLow(a, k) ==
    LET n == k \div LimbBits
        r == k % LimbBits
    IN  IF n >= Len(a) THEN a
        ELSE BNTrim(Append(SubSeq(a, 1, n), a[n + 1] % Pow2(r)))

\* Number of trailing zero bits of a positive natural.
BNTrailZ(a) ==
    LET j == SetMin({i \in 1..Len(a) : a[i] # 0})
    IN  LimbBits * (j - 1) + IntTrailZ(a[j])

\* <<floor(a / d), a mod d>> for a small divisor 0 < d < LimbBase,
\* one limb at a time from the top.
RECURSIVE BNDivSmallFrom(_, _, _, _, _)
BNDivSmallFrom(a, d, i, q, r) ==
    IF i = 0 THEN <<BNTrim(q), BN(r)>>
    ELSE BNDivSmallFrom(a, d, i - 1, <<(r * LimbBase + a[i]) \div d>> \o q,
                        (r * LimbBase + a[i]) % d)

BNDivSmall(a, d) == BNDivSmallFrom(a, d, Len(a), <<>>, 0)

\* The quotient and the remainder of a pair <<quotient, remainder>>.
BNQuot(qr) == IF Ready(qr) THEN qr[1] ELSE <<>>
BNRem(qr)  == IF Ready(qr) THEN qr[2] ELSE <<>>

\* <<q + k, r - k * b>> for the k that brings the remainder below b.
RECURSIVE BNDivFix(_, _, _)
BNDivFix(q, r, b) ==
    IF Ready(r) /\ BNCmp(r, b) >= 0
    THEN BNDivFix(q + 1, BNSub(r, b), b) ELSE <<q, r>>

\* <<floor(r / b), r mod b>> for r < b * LimbBase and a divisor b whose top
\* limb has its top bit set: the quotient digit is estimated from below by
\* the two top limbs of r over the top limb of b plus one, then corrected.
BNDivStep(r, b) ==
    LET n  == Len(b)
        rt == BNLimb(r, n + 1) * LimbBase + BNLimb(r, n)
        qh == rt \div (b[n] + 1)
    IN  IF Ready(r) THEN BNDivFix(qh, BNSub(r, BNMulSmall(b, qh)), b)
        ELSE <<0, r>>

\* Long division of a by b, the limbs of a entering from limb i down to
\* limb 1; q and r are the quotient limbs and the remainder so far.
RECURSIVE BNDivFrom(_, _, _, _, _)
RECURSIVE BNDivNext(_, _, _, _, _)
BNDivFrom(a, b, i, q, r) ==
    IF i = 0 THEN <<q, r>>
    ELSE BNDivNext(a, b, i, q, BNDivStep(BNTrim(<<a[i]>> \o r), b))

\* st is <<quotient digit, remainder>> of the step at limb i.
BNDivNext(a, b, i, q, st) ==
    IF Ready(st) THEN BNDivFrom(a, b, i - 1, <<st[1]>> \o q, st[2]) ELSE st

\* The quotient limbs and the shifted remainder, back as two naturals.
BNDivUnshift(qr, sh) ==
    IF Ready(qr) THEN <<BNTrim(qr[1]), BNShr(qr[2], sh)>> ELSE qr

\* Long division of the shifted operands an and bn.
BNDivNorm(an, bn, sh) ==
    LET i0 == Len(an) - Len(bn) + 1
    IN  IF Ready(an) /\ Ready(bn)
        THEN BNDivUnshift(BNDivFrom(an, bn, i0, <<>>,
                                    BNTrim(SubSeq(an, i0 + 1, Len(an)))), sh)
        ELSE <<an, bn>>

\* <<floor(a / b), a mod b>> for b # 0.  The divisor is shifted until its
\* top limb is full; the top limbs of a that stay below b are the first
\* remainder.
BNDivMod(a, b) ==
    IF Len(b) = 1 THEN BNDivSmall(a, b[1])
    ELSE IF Len(a) < Len(b) THEN <<<<>>, a>>
    ELSE LET sh == LimbBits - IntBitLen(b[Len(b)])
         IN  BNDivNorm(BNShl(a, sh), BNShl(b, sh), sh)

(***************************************************************************)
(* Python floats (IEEE-754 binary64, round to nearest, ties to even).      *)
(***************************************************************************)
FZero == [s |-> 0, m |-> <<>>, e |-> 0]

\* The float whose exact value is (-1)^s * n * 2^e, n of at most 53 bits.
FCanon(s, n, e) ==
    IF Ready(n) /\ n = <<>> THEN FZero
    ELSE Bind(BNTrailZ(n), LAMBDA z :
              [s |-> s, m |-> BNShr(n, z), e |-> e + z])

\* q, the bits kept of a natural, rounded by the bit below it (guard) and by
\* whether anything lies below that bit (rest): up on more than half, and
\* on a half when q is odd.
FRoundUp(s, q, e, guard, rest) ==
    FCanon(s, IF guard /\ (rest \/ BNIsOdd(q)) THEN BNAdd(q, <<1>>) ELSE q, e)

\* The float nearest to (-1)^s * (n + d) * 2^e, where 0 <= d < 1 and d > 0
\* exactly when sticky; with sticky, n has more than 53 bits.  A float has
\* 53 bits, and no bit below 2^-1074: of the bl bits of n the top keep stay
\* and sh go.
FRound(s, n, e, sticky) ==
    Bind(BNBitLen(n), LAMBDA bl :
         LET keep == IF bl + e + SubnormalExp < MantBits
                     THEN bl + e + SubnormalExp ELSE MantBits
             sh   == IF bl <= keep THEN 0 ELSE bl - keep
         IN  FRoundUp(s, BNShr(n, sh), e + sh,
                      sh > 0 /\ BNIsOdd(BNShr(n, sh - 1)),
                      sticky \/ (sh > 0 /\ BNLow(n, sh - 1) # <<>>)))

\* int -> float, exact for |n| < 2^31.
FromInt(n) == IF n < 0 THEN FCanon(1, BN(-n), 0) ELSE FCanon(0, BN(n), 0)

FNeg(a) == IF Ready(a) /\ a.m = <<>> THEN a ELSE [a EXCEPT !.s = 1 - a.s]

FIsZero(a) == Ready(a) /\ a.m = <<>>

\* The exact sum of two nonzero floats whose magnitudes na and nb are
\* aligned to the exponent e; c compares na with nb.
FAligned(sa, na, sb, nb, e, c) ==
    IF sa = sb THEN <<sa, BNAdd(na, nb), e>>
    ELSE IF c = 0 THEN <<0, <<>>, 0>>
    ELSE IF c > 0 THEN <<sa, BNSub(na, nb), e>>
    ELSE <<sb, BNSub(nb, na), e>>

\* The exact sum of two floats as <<sign, magnitude, exponent>>.
FExactAdd(a, b) ==
    LET e == IF a.e < b.e THEN a.e ELSE b.e
    IN  IF Ready(a) /\ Ready(b) /\ a.m = <<>> THEN <<b.s, b.m, b.e>>
        ELSE IF b.m = <<>> THEN <<a.s, a.m, a.e>>
        ELSE Bind(BNShl(a.m, a.e - e), LAMBDA na :
             Bind(BNShl(b.m, b.e - e), LAMBDA nb :
                  FAligned(a.s, na, b.s, nb, e, BNCmp(na, nb))))

\* The float nearest to an exact sum x.
FRoundSum(x) == IF Ready(x) THEN FRound(x[1], x[2], x[3], FALSE) ELSE FZero

\* a + b
FAdd(a, b) == FRoundSum(FExactAdd(a, b))

\* a - b
FSub(a, b) == IF Ready(a) /\ Ready(b) THEN FAdd(a, FNeg(b)) ELSE FZero

\* -1, 0, 1 as a < b, a = b, a > b.
FSign(x) == IF Ready(x) /\ x[2] = <<>> THEN 0 ELSE IF x[1] = 1 THEN -1 ELSE 1

FCmp(a, b) == IF Ready(a) /\ Ready(b) THEN FSign(FExactAdd(a, FNeg(b))) ELSE 0

FLt(a, b) == FCmp(a, b) < 0
FLe(a, b) == FCmp(a, b) <= 0
FGt(a, b) == FCmp(a, b) > 0
FGe(a, b) == FCmp(a, b) >= 0

\* a * b
FMul(a, b) ==
    IF Ready(a) /\ Ready(b) /\ (a.m = <<>> \/ b.m = <<>>) THEN FZero
    ELSE FRound((a.s + b.s) % 2, BNMul(a.m, b.m), a.e + b.e, FALSE)

\* The float nearest to (-1)^s * (q + r / d) * 2^e for qr = <<q, r>>, the
\* quotient and remainder of a division by d.
FRoundQuot(s, qr, e) ==
    IF Ready(qr) THEN FRound(s, qr[1], e, qr[2] # <<>>) ELSE FZero

\* a / b for b # 0: the quotient of the magnitudes is taken to at least
\* 55 bits and the remainder decides the ties.
FDiv(a, b) ==
    IF Ready(a) /\ Ready(b) /\ a.m = <<>> THEN FZero
    ELSE LET d == MantBits + 3 + BNBitLen(b.m) - BNBitLen(a.m)
             k == IF d > 0 THEN d ELSE 0
         IN  FRoundQuot((a.s + b.s) % 2, BNDivMod(BNShl(a.m, k), b.m),
                        a.e - b.e - k)

\* The float a decimal literal num/den denotes (float("0.1") is
\* FromRatio(1, 10)): the double nearest to the quotient.
FromRatio(num, den) == FDiv(FromInt(num), FromInt(den))

\* floor(|a|) as an integer, for |a| < 2^31.
FTruncMag(a) ==
    IF Ready(a) /\ a.e >= 0 THEN BNToInt(BNShl(a.m, a.e)) ELSE BNToInt(BNShr(a.m, -a.e))

\* int(a): truncation toward zero.
PyInt(a) == IF Ready(a) /\ a.s = 1 THEN -FTruncMag(a) ELSE FTruncMag(a)

\* The nearest integer with ties away from zero, not Python's round.
PyRound_HalfUp(a) ==
    IF Ready(a) /\ a.e >= 0 THEN PyInt(a)
    ELSE LET q    == FTruncMag(a)
             half == BNIsOdd(BNShr(a.m, -a.e - 1))
             r    == IF half THEN q + 1 ELSE q
         IN  IF a.s = 1 THEN -r ELSE r

\* The integer part in place of the nearest integer.
PyRound_Truncating(a) == PyInt(a)

\* round(a): the nearest integer, ties to the even one.
PyRound(a) ==
    IF Ready(a) /\ a.e >= 0 THEN PyInt(a)
    ELSE LET q    == FTruncMag(a)
             half == BNIsOdd(BNShr(a.m, -a.e - 1))
             rest == BNLow(a.m, -a.e - 1) # <<>>
             r    == IF half /\ (rest \/ q % 2 = 1) THEN q + 1 ELSE q
         IN  IF a.s = 1 THEN -r ELSE r

\* math.fmod(|a|, d) for an integer 0 < d < 2^15: exact, no rounding.
FModMag(a, d) ==
    IF Ready(a) /\ a.e >= 0
    THEN FCanon(0, BNRem(BNDivSmall(BNShl(a.m, a.e), d)), 0)
    ELSE LET ip == BNShr(a.m, -a.e)
             fp == BNLow(a.m, -a.e)
             r  == BNRem(BNDivSmall(ip, d))
         IN  FCanon(0, BNAdd(BNShl(r, -a.e), fp), a.e)

\* a % d for the float d = FromInt(dd), dd > 0 (Python's float_rem: the
\* C remainder, moved into [0, d) by one rounded addition when negative).
PyModSign(a, r, dd) ==
    IF Ready(r) /\ (a.s = 0 \/ r.m = <<>>) THEN r
    ELSE FAdd(FNeg(r), FromInt(dd))

PyMod(a, dd) == PyModSign(a, FModMag(a, dd), dd)

\* max(a, b) of Python: the first argument unless the second is greater.
PyMax(a, b) == IF Ready(a) /\ Ready(b) /\ FGt(b, a) THEN b ELSE a
\* min(a, b) of Python: the first argument unless the second is smaller.
PyMin(a, b) == IF Ready(a) /\ Ready(b) /\ FLt(b, a) THEN b ELSE a

(***************************************************************************)
(* math.exp, math.cos and the ** of floats are the C library's exp, cos    *)
(* and pow (glibc 2.36, x86-64, the variants built with fused              *)
(* multiply-add).  Their results are within one unit in the last place of  *)
(* the true value, not always the nearest double, so the model computes    *)
(* them the way the library does: the same tables and polynomials, the     *)
(* same operations in the same order, each rounded as the hardware rounds  *)
(* it.  A result of 2^1024 or more stands for the library's infinity.      *)
(***************************************************************************)
\* fma(a, b, c): a * b + c, rounded once.
FFma(a, b, c) ==
    IF Ready(a) /\ Ready(b) /\ Ready(c) /\ (a.m = <<>> \/ b.m = <<>>) THEN c
    ELSE FRoundSum(FExactAdd([s |-> (a.s + b.s) % 2, m |-> BNMul(a.m, b.m),
                              e |-> a.e + b.e], c))

\* fabs(a)
FAbs(a) == IF Ready(a) THEN [a EXCEPT !.s = 0] ELSE a

\* copysign(a, b) for a # 0.
FCopySign(a, b) == IF Ready(a) /\ Ready(b) THEN [a EXCEPT !.s = b.s] ELSE a

\* a * 2^k, exact.
FScale(a, k) == IF Ready(a) /\ a.m = <<>> THEN a ELSE [a EXCEPT !.e = @ + k]

\* The result is 2^1024 or more in magnitude: no double, the library's
\* infinity.
FIsHuge(a) == Ready(a) /\ BNBitLen(a.m) + a.e > 1024

\* The exponent field of a double: bits 52 to 62 of its 64-bit word.
FExpField(a) ==
    IF Ready(a) /\ (a.m = <<>> \/ BNBitLen(a.m) + a.e < -1021) THEN 0
    ELSE BNBitLen(a.m) + a.e + 1022

\* asuint64(a): the 64-bit word of a double.
FBits(a) ==
    LET bl == BNBitLen(a.m)
    IN  IF Ready(a) /\ a.m = <<>> THEN <<>>
        ELSE IF bl + a.e < -1021
        THEN BNAdd(BNShl(BN(2048 * a.s), 52), BNShl(a.m, a.e + SubnormalExp))
        ELSE BNAdd(BNShl(BN(2048 * a.s + bl + a.e + 1022), 52),
                   BNLow(BNShl(a.m, MantBits - bl), 52))

\* asdouble(b): the double of a 64-bit word, neither infinity nor NaN.
FOfBits(b) ==
    LET field == BNToInt(BNShr(BNLow(b, 63), 52))
        s     == IF BNBitLen(b) = 64 THEN 1 ELSE 0
    IN  IF Ready(b) /\ field = 0 THEN FCanon(s, BNLow(b, 52), -SubnormalExp)
        ELSE FCanon(s, BNAdd(BNLow(b, 52), BNShl(<<1>>, 52)),
                    field - SubnormalExp - 1)

\* a + b of two 64-bit words, modulo 2^64.
U64Add(a, b) == BNLow(BNAdd(a, b), 64)

\* The library's infinity, which no [s, m, e] of a double equals.
FInf == [s |-> 0, m |-> <<1>>, e |-> 1024]

F0 == FZero
F1 == [s |-> 0, m |-> <<1>>, e |-> 0]

\* __exp_data: 128 / ln2, the shift that rounds to an integer, -ln2 / 128 in
\* two parts, and the polynomial of exp(r) - 1 - r.
exp_data ==
    [ invln2N   |-> [s |-> 0, m |-> <<16767, 25899, 10894, 92>>, e |-> -44],  \* 0x1.71547652b82fep+7
      shift     |-> [s |-> 0, m |-> <<3>>, e |-> 51],  \* 0x1.8000000000000p+52
      negln2hiN |-> [s |-> 1, m |-> <<32637, 11842, 44>>, e |-> -43],  \* -0x1.62e42fefa0000p-8
      negln2loN |-> [s |-> 1, m |-> <<7581, 15518, 28469, 115>>, e |-> -98],  \* -0x1.cf79abc9e3b3ap-47
      C2        |-> [s |-> 0, m |-> <<32189, 32767, 32767, 255>>, e |-> -54],  \* 0x1.ffffffffffdbdp-2
      C3        |-> [s |-> 0, m |-> <<21775, 10922, 21845, 42>>, e |-> -53],  \* 0x1.555555555543cp-3
      C4        |-> [s |-> 0, m |-> <<11153, 7726, 21847, 170>>, e |-> -57],  \* 0x1.55555cf172b91p-5
      C5        |-> [s |-> 0, m |-> <<20503, 20297, 17477, 136>>, e |-> -59] ]  \* 0x1.1111167a4d017p-7

\* __pow_log_data: ln2 in two parts and the polynomial of log1p(r) - r.
pow_log_data ==
    [ ln2hi     |-> [s |-> 0, m |-> <<24391, 4287, 2839>>, e |-> -42],  \* 0x1.62e42fefa3800p-1
      ln2lo     |-> [s |-> 0, m |-> <<30323, 29304, 15573, 15>>, e |-> -93],  \* 0x1.ef35793c76730p-45
      A0        |-> [s |-> 1, m |-> <<1>>, e |-> -1],  \* -0x1.0000000000000p-1
      A1        |-> [s |-> 1, m |-> <<10923, 21845, 10922, 5>>, e |-> -48],  \* -0x1.5555555555560p-1
      A2        |-> [s |-> 0, m |-> <<3, 0, 0, 64>>, e |-> -52],  \* 0x1.0000000000006p-1
      A3        |-> [s |-> 0, m |-> <<10919, 6489, 13107, 102>>, e |-> -52],  \* 0x1.999999959554ep-1
      A4        |-> [s |-> 1, m |-> <<21053, 21801, 10922, 85>>, e |-> -52],  \* -0x1.555555529a47ap-1
      A5        |-> [s |-> 1, m |-> <<17897, 13968, 9582, 146>>, e |-> -52],  \* -0x1.2495b9b4845e9p+0
      A6        |-> [s |-> 0, m |-> <<16323, 5708, 174, 128>>, e |-> -52] ]  \* 0x1.0002b8b263fc3p+0

\* The constants of s_sin.c: big, the polynomials of sin and cos next to a
\* table entry (sn, cs) and of sin next to zero (s), pi/2 in two parts (hp),
\* 2/pi, the shift that rounds to an integer, pi/2 in four parts, and the
\* bound 0.126 of TAYLOR_SIN.
sincos_data ==
    [ big       |-> [s |-> 0, m |-> <<3>>, e |-> 44],  \* 0x1.8000000000000p+45
      sn3       |-> [s |-> 1, m |-> <<21781, 10922, 21845, 170>>, e |-> -55],  \* -0x1.5555555555515p-3
      sn5       |-> [s |-> 0, m |-> <<1839, 20563, 17475, 136>>, e |-> -59],  \* 0x1.11110e829872fp-7
      cs2       |-> [s |-> 0, m |-> <<1>>, e |-> -1],  \* 0x1.0000000000000p-1
      cs4       |-> [s |-> 1, m |-> <<21813, 10922, 21845, 170>>, e |-> -57],  \* -0x1.5555555555535p-5
      cs6       |-> [s |-> 0, m |-> <<25145, 23475, 1455, 182>>, e |-> -62],  \* 0x1.6c16bedd9e239p-10
      s1        |-> [s |-> 1, m |-> <<21845, 10922, 21845, 170>>, e |-> -55],  \* -0x1.5555555555555p-3
      s2        |-> [s |-> 0, m |-> <<1895, 4369, 8738, 68>>, e |-> -58],  \* 0x1.1111111110ecep-7
      s3        |-> [s |-> 1, m |-> <<24855, 1654, 208, 26>>, e |-> -62],  \* -0x1.a01a019db08b8p-13
      s4        |-> [s |-> 0, m |-> <<32473, 30516, 30601, 184>>, e |-> -71],  \* 0x1.71de27b9a7ed9p-19
      s5        |-> [s |-> 1, m |-> <<24409, 1529, 30719, 214>>, e |-> -78],  \* -0x1.addffc2fcdf59p-26
      hp0       |-> [s |-> 0, m |-> <<1443, 21777, 4349, 25>>, e |-> -49],  \* 0x1.921fb54442d18p+0
      hp1       |-> [s |-> 0, m |-> <<23559, 26152, 6296, 141>>, e |-> -106],  \* 0x1.1a62633145c07p-54
      hpinv     |-> [s |-> 0, m |-> <<18563, 23443, 31937, 162>>, e |-> -53],  \* 0x1.45f306dc9c883p-1
      toint     |-> [s |-> 0, m |-> <<3>>, e |-> 51],  \* 0x1.8000000000000p+52
      mp1       |-> [s |-> 0, m |-> <<16235, 1608>>, e |-> -25],  \* 0x1.921fb58000000p+0
      mp2       |-> [s |-> 1, m |-> <<9679, 3823>>, e |-> -53],  \* -0x1.dde973c000000p-27
      pp3       |-> [s |-> 1, m |-> <<30323, 1836>>, e |-> -80],  \* -0x1.cb3b398000000p-55
      pp4       |-> [s |-> 1, m |-> <<11991, 18374, 20988, 235>>, e |-> -135],  \* -0x1.d747f23e32ed7p-83
      taylor    |-> [s |-> 0, m |-> <<30933, 19922, 8388, 32>>, e |-> -53] ]  \* 0.126

\* The constants of branred.c: the splitter 2^27 + 1, the shifts that round
\* to an integer and to a multiple of four, pi/2 in three parts, and the
\* half a quarter turn is folded at.
branred_data ==
    [ split     |-> [s |-> 0, m |-> <<1, 4096>>, e |-> 0],  \* 0x1.0000002000000p+27
      big       |-> [s |-> 0, m |-> <<3>>, e |-> 51],  \* 0x1.8000000000000p+52
      big1      |-> [s |-> 0, m |-> <<3>>, e |-> 53],  \* 0x1.8000000000000p+54
      hp0       |-> [s |-> 0, m |-> <<1443, 21777, 4349, 25>>, e |-> -49],  \* 0x1.921fb54442d18p+0
      hp1       |-> [s |-> 0, m |-> <<23559, 26152, 6296, 141>>, e |-> -106],  \* 0x1.1a62633145c07p-54
      mp1       |-> [s |-> 0, m |-> <<16235, 1608>>, e |-> -25],  \* 0x1.921fb58000000p+0
      mp2       |-> [s |-> 1, m |-> <<31325, 238>>, e |-> -49],  \* -0x1.dde9740000000p-27
      half      |-> [s |-> 0, m |-> <<1>>, e |-> -1] ]  \* 0.5

\* math.pi
FPi == [s |-> 0, m |-> <<1443, 21777, 4349, 25>>, e |-> -48]  \* 0x1.921fb54442d18p+1

\* __exp_data.tab: for i in 0..127 the bits of the tail of 2^(i/128) and the bits
\* of 2^(i/128) less i * 2^45, as 64-bit words.
exp_tab ==
    << <<>>, <<0, 0, 0, 32640, 3>>, <<16238, 13585, 27964, 25817, 3>>,
      <<13109, 21494, 22774, 32639, 3>>, <<23645, 14769, 78, 25483, 11>>,
      <<97, 31983, 12904, 32639, 3>>, <<26321, 8462, 31208, 25730, 11>>,
      <<32645, 20700, 3159, 32639, 3>>, <<30227, 27343, 18760, 25702, 3>>,
      <<1396, 9771, 26307, 32638, 3>>, <<3834, 18419, 14848, 25694, 11>>,
      <<30430, 21435, 16812, 32638, 3>>, <<18529, 17357, 23865, 25351, 3>>,
      <<7112, 12523, 7444, 32638, 3>>, <<21401, 13927, 3985, 25733, 3>>,
      <<29571, 5517, 30971, 32637, 3>>, <<31597, 15110, 27289, 25788, 3>>,
      <<2319, 23027, 21857, 32637, 3>>, <<28668, 9723, 21610, 25717, 3>>,
      <<18423, 22244, 12872, 32637, 3>>, <<7377, 24671, 30965, 25077, 3>>,
      <<20898, 26023, 4016, 32637, 3>>, <<28171, 4896, 3282, 25424, 11>>,
      <<21275, 24573, 28058, 32636, 3>>, <<15630, 21599, 22856, 25770, 11>>,
      <<23377, 8228, 19463, 32636, 3>>, <<27221, 6301, 958, 25220, 11>>,
      <<12748, 216, 10999, 32636, 3>>, <<29718, 29611, 9358, 25742, 11>>,
      <<11744, 23890, 2666, 32636, 3>>, <<21935, 21176, 20367, 25606, 3>>,
      <<3665, 4427, 27235, 32635, 3>>, <<4936, 21835, 27735, 25600, 11>>,
      <<20859, 30970, 19168, 32635, 3>>, <<12861, 11196, 32705, 25720, 11>>,
      <<3562, 28953, 11236, 32635, 3>>, <<21439, 32294, 9776, 25692, 3>>,
      <<19317, 22239, 3439, 32635, 3>>, <<27430, 27683, 26225, 25782, 11>>,
      <<23764, 2056, 28546, 32634, 3>>, <<12128, 31860, 13276, 25815, 3>>,
      <<14762, 25297, 21020, 32634, 3>>, <<14493, 5900, 7691, 25727, 11>>,
      <<22813, 17913, 13632, 32634, 3>>, <<17293, 2381, 15621, 25683, 3>>,
      <<3286, 4293, 6382, 32634, 3>>, <<1149, 25032, 26646, 25603, 3>>,
      <<23702, 8955, 32038, 32633, 3>>, <<10388, 18257, 15351, 25780, 3>>,
      <<25144, 23786, 25065, 32633, 3>>, <<18557, 25832, 30819, 25658, 3>>,
      <<9791, 8037, 18233, 32633, 3>>, <<26610, 12351, 7342, 25602, 3>>,
      <<31965, 19396, 11541, 32633, 3>>, <<2142, 32482, 25068, 25781, 11>>,
      <<25473, 17386, 4991, 32633, 3>>, <<11057, 23059, 24453, 25623, 3>>,
      <<24289, 27199, 31351, 32632, 3>>, <<16378, 13535, 1644, 25065, 11>>,
      <<22928, 8629, 25087, 32632, 3>>, <<2740, 25624, 24073, 25689, 3>>,
      <<779, 19912, 18966, 32632, 3>>, <<19343, 5021, 21066, 25456, 3>>,
      <<12118, 21116, 12990, 32632, 3>>, <<11190, 7009, 13781, 25626, 3>>,
      <<14101, 5219, 7160, 32632, 3>>, <<29772, 17752, 2055, 25650, 3>>,
      <<22577, 30873, 1475, 32632, 3>>, <<30794, 15271, 29925, 25726, 3>>,
      <<5887, 25800, 28706, 32631, 3>>, <<23300, 30492, 3584, 25653, 11>>,
      <<8177, 16165, 23317, 32631, 3>>, <<20584, 6294, 11191, 25746, 11>>,
      <<10699, 28277, 18076, 32631, 3>>, <<11662, 13986, 8160, 25800, 11>>,
      <<22630, 23051, 12985, 32631, 3>>, <<14034, 32040, 18336, 25486, 11>>,
      <<8183, 27083, 8044, 32631, 3>>, <<6933, 26524, 25702, 25800, 11>>,
      <<10469, 1575, 3255, 32631, 3>>, <<19565, 20052, 32034, 25644, 3>>,
      <<13346, 6180, 31385, 32630, 3>>, <<27018, 29776, 18817, 25752, 11>>,
      <<28, 2393, 26900, 32630, 3>>, <<2395, 4143, 7741, 25285, 11>>,
      <<11818, 17390, 22568, 32630, 3>>, <<6683, 20115, 12909, 25569, 11>>,
      <<10391, 12961, 18391, 32630, 3>>, <<11281, 16773, 4021, 25115, 3>>,
      <<2349, 16579, 14369, 32630, 3>>, <<25839, 30220, 6180, 25779, 3>>,
      <<87, 23098, 10503, 32630, 3>>, <<889, 13634, 13191, 25462, 3>>,
      <<15568, 27522, 6794, 32630, 3>>, <<4656, 32286, 32312, 25759, 3>>,
      <<21470, 25007, 3243, 32630, 3>>, <<12208, 30453, 17210, 25524, 3>>,
      <<10791, 10860, 32619, 32629, 3>>, <<24695, 22185, 30455, 25752, 3>>,
      <<23821, 13307, 29386, 32629, 3>>, <<9102, 227, 20688, 25724, 11>>,
      <<11431, 27962, 26313, 32629, 3>>, <<9033, 14631, 31539, 25662, 11>>,
      <<26178, 17822, 23402, 32629, 3>>, <<14431, 31262, 31514, 25542, 11>>,
      <<20354, 11578, 20653, 32629, 3>>, <<23798, 22774, 18715, 25648, 11>>,
      <<4623, 5307, 18067, 32629, 3>>, <<22414, 12795, 21524, 25753, 3>>,
      <<10202, 28010, 15644, 32629, 3>>, <<6917, 24341, 25308, 25564, 3>>,
      <<18429, 10543, 13387, 32629, 3>>, <<21513, 17464, 3975, 25731, 3>>,
      <<21545, 14992, 11295, 32629, 3>>, <<18154, 8243, 7701, 24998, 3>>,
      <<18103, 5298, 9370, 32629, 3>>, <<16437, 22217, 19352, 25761, 3>>,
      <<8520, 11098, 7612, 32629, 3>>, <<30367, 17202, 4393, 25703, 11>>,
      <<23561, 29421, 6022, 32629, 3>>, <<19880, 30686, 20244, 25697, 11>>,
      <<21893, 24692, 4602, 32629, 3>>, <<27054, 4695, 19938, 25634, 11>>,
      <<17184, 27033, 3352, 32629, 3>>, <<22616, 28844, 15221, 25758, 11>>,
      <<8741, 1194, 2274, 32629, 3>>, <<6500, 252, 17066, 25272, 3>>,
      <<10611, 10393, 1367, 32629, 3>>, <<8744, 32444, 20414, 25757, 11>>,
      <<15309, 19710, 633, 32629, 3>>, <<14722, 3689, 19126, 25424, 11>>,
      <<23231, 27159, 73, 32629, 3>>, <<10734, 28891, 8126, 25371, 11>>,
      <<6703, 30922, 32456, 32628, 3>>, <<2129, 10689, 28917, 25606, 11>>,
      <<5252, 29347, 32247, 32628, 3>>, <<16079, 31924, 32145, 25536, 11>>,
      <<24436, 20952, 32215, 32628, 3>>, <<32176, 278, 14635, 25655, 11>>,
      <<372, 4427, 32361, 32628, 3>>, <<26250, 15531, 25800, 25648, 11>>,
      <<26569, 11396, 32685, 32628, 3>>, <<21715, 15379, 29485, 25732, 3>>,
      <<23871, 8124, 421, 32629, 3>>, <<9501, 29339, 19314, 25561, 11>>,
      <<391, 26582, 1105, 32629, 3>>, <<16491, 10447, 13301, 25767, 3>>,
      <<16690, 609, 1972, 32629, 3>>, <<27733, 22444, 12166, 25391, 3>>,
      <<20066, 28062, 3020, 32629, 3>>, <<20290, 24423, 1812, 25669, 11>>,
      <<6674, 10364, 4253, 32629, 3>>, <<14132, 25206, 9947, 25755, 11>>,
      <<19987, 12953, 5670, 32629, 3>>, <<32542, 29747, 31248, 25602, 11>>,
      <<18349, 3143, 7273, 32629, 3>>, <<22382, 12516, 20803, 25766, 11>>,
      <<4845, 13961, 9062, 32629, 3>>, <<2560, 13853, 13725, 25733, 3>>,
      <<26265, 13076, 11039, 32629, 3>>, <<27316, 993, 23743, 25709, 3>>,
      <<8411, 1109, 13205, 32629, 3>>, <<26623, 14731, 22914, 25389, 11>>,
      <<17548, 11626, 15560, 32629, 3>>, <<24388, 13286, 23053, 25567, 3>>,
      <<30518, 12842, 18106, 32629, 3>>, <<15747, 20028, 9342, 25752, 11>>,
      <<32710, 5923, 20844, 32629, 3>>, <<7721, 5848, 9954, 25325, 11>>,
      <<17893, 24987, 23774, 32629, 3>>, <<14681, 31009, 4069, 25441, 11>>,
      <<21007, 6032, 26899, 32629, 3>>, <<31146, 17897, 3340, 25746, 11>>,
      <<20048, 16316, 30218, 32629, 3>>, <<3659, 11981, 10675, 25646, 11>>,
      <<1978, 24980, 965, 32630, 3>>, <<20007, 22307, 16368, 25485, 3>>,
      <<28816, 1351, 4678, 32630, 3>>, <<29627, 16916, 18647, 25454, 3>>,
      <<8995, 13254, 8588, 32630, 3>>, <<8803, 17604, 5136, 25662, 11>>,
      <<25957, 30395, 12697, 32630, 3>>, <<12757, 18372, 29211, 25688, 3>>,
      <<11571, 22676, 17007, 32630, 3>>, <<15125, 10105, 28487, 25741, 11>>,
      <<9565, 25724, 21518, 32630, 3>>, <<12754, 14812, 12486, 25734, 3>>,
      <<13144, 9825, 26232, 32630, 3>>, <<23219, 23782, 9745, 25635, 3>>,
      <<32191, 10995, 31149, 32630, 3>>, <<7604, 12061, 32566, 25622, 11>>,
      <<29562, 32679, 3502, 32631, 3>>, <<13191, 9622, 27102, 25696, 3>>,
      <<21421, 12981, 8830, 32631, 3>>, <<23034, 5539, 28221, 25731, 11>>,
      <<13926, 21275, 14364, 32631, 3>>, <<11962, 11705, 3941, 25262, 11>>,
      <<5627, 28830, 20106, 32631, 3>>, <<30272, 31565, 4152, 25733, 11>>,
      <<22842, 7114, 26058, 32631, 3>>, <<4916, 29019, 23504, 25414, 11>>,
      <<24135, 26102, 32219, 32631, 3>>, <<2613, 22193, 15241, 25743, 11>>,
      <<1610, 24898, 5824, 32632, 3>>, <<24013, 5311, 32604, 25511, 3>>,
      <<16850, 8343, 12410, 32632, 3>>, <<6316, 29989, 30703, 25741, 11>>,
      <<7689, 14254, 19209, 32632, 3>>, <<3251, 24926, 15032, 25499, 3>>,
      <<21148, 15114, 26223, 32632, 3>>, <<32148, 14655, 3273, 25719, 3>>,
      <<20602, 16383, 685, 32633, 3>>, <<22956, 8722, 575, 25639, 3>>,
      <<20811, 23727, 8132, 32633, 3>>, <<6759, 28828, 14012, 25374, 3>>,
      <<26549, 10253, 15798, 32633, 3>>, <<6504, 22820, 11441, 25403, 3>>,
      <<4201, 14815, 23683, 32633, 3>>, <<13778, 1945, 10338, 25604, 11>>,
      <<17402, 10939, 31789, 32633, 3>>, <<31343, 32767, 13684, 25725, 11>>,
      <<2428, 5135, 7349, 32634, 3>>, <<10569, 28907, 14008, 25728, 11>>,
      <<2546, 4123, 15900, 32634, 3>>, <<1959, 19578, 3606, 25509, 3>>,
      <<9351, 14839, 24675, 32634, 3>>, <<8719, 16512, 18040, 25620, 11>>,
      <<920, 11667, 908, 32635, 3>>, <<4780, 11139, 26947, 25714, 3>>,
      <<12933, 1974, 10136, 32635, 3>>, <<27467, 22530, 26982, 25633, 3>>,
      <<13408, 26115, 19591, 32635, 3>>, <<15903, 3944, 21636, 25622, 11>>,
      <<7007, 26359, 29276, 32635, 3>>, <<3529, 30350, 10980, 25673, 11>>,
      <<8489, 10731, 6424, 32636, 3>>, <<2259, 16501, 22545, 25509, 3>>,
      <<16374, 20246, 16571, 32636, 3>>, <<29297, 9018, 6065, 25630, 3>>,
      <<19587, 30606, 26951, 32636, 3>>, <<4592, 8103, 23626, 25727, 11>>,
      <<4314, 17737, 4798, 32637, 3>>, <<29821, 17478, 14947, 25709, 11>>,
      <<26609, 23324, 15648, 32637, 3>>, <<8200, 852, 3825, 25718, 3>>,
      <<23079, 23746, 26735, 32637, 3>>, <<27442, 1875, 11859, 25633, 3>>,
      <<14999, 28375, 5292, 32638, 3>>, <<1518, 25507, 4772, 25683, 3>>,
      <<17728, 14044, 16857, 32638, 3>>, <<25581, 18551, 24299, 25713, 11>>,
      <<15892, 23353, 28662, 32638, 3>>, <<19869, 6947, 9453, 25532, 3>>,
      <<4312, 829, 7942, 32639, 3>>, <<19593, 705, 5893, 25240, 3>>,
      <<29169, 22302, 20232, 32639, 3>>>>

\* __sincostab: sin(i/128) and cos(i/128), each as a double and its tail, for
\* i in 0..109, as 64-bit words.
sincostab ==
    << <<>>, <<>>, <<0, 0, 0, 32640, 3>>, <<>>,
      <<28399, 21853, 32682, 31743, 3>>, <<14204, 22735, 6027, 24818, 11>>,
      <<21842, 42, 32512, 32639, 3>>, <<28078, 16434, 10246, 25722, 3>>,
      <<28373, 21981, 32426, 31871, 3>>, <<1911, 13630, 11662, 24597, 11>>,
      <<21663, 682, 31744, 32639, 3>>, <<24307, 16500, 10402, 25620, 3>>,
      <<12885, 518, 32192, 31935, 3>>, <<29494, 8868, 30893, 24567, 3>>,
      <<30694, 3455, 30464, 32639, 3>>, <<30653, 20690, 7019, 25687, 3>>,
      <<26735, 24029, 31402, 31999, 3>>, <<19170, 30276, 20507, 25062, 11>>,
      <<10195, 10922, 28672, 32639, 3>>, <<7003, 9649, 21778, 25629, 11>>,
      <<17877, 25178, 31434, 32031, 3>>, <<7185, 16506, 12624, 24999, 3>>,
      <<10170, 26665, 26368, 32639, 3>>, <<22975, 31960, 18386, 25420, 3>>,
      <<31657, 8293, 30464, 32063, 3>>, <<6522, 26845, 26359, 25132, 11>>,
      <<31135, 22523, 23553, 32639, 3>>, <<3423, 16585, 20181, 25541, 11>>,
      <<28076, 28848, 29109, 32095, 3>>, <<29238, 1975, 5108, 24775, 3>>,
      <<14897, 4128, 20227, 32639, 3>>, <<3686, 31672, 5558, 25508, 3>>,
      <<20187, 24026, 27307, 32127, 3>>, <<19305, 25808, 17844, 25110, 11>>,
      <<29907, 10899, 16389, 32639, 3>>, <<17007, 30514, 8417, 25625, 3>>,
      <<3055, 31489, 28880, 32143, 3>>, <<15951, 19943, 29899, 25337, 11>>,
      <<28575, 17745, 12040, 32639, 3>>, <<19575, 27114, 19748, 25276, 3>>,
      <<30043, 9634, 27436, 32159, 3>>, <<18060, 9522, 1605, 25289, 11>>,
      <<28527, 595, 7181, 32639, 3>>, <<28567, 28562, 32012, 25445, 11>>,
      <<14135, 31265, 25671, 32175, 3>>, <<4354, 1405, 24892, 25216, 11>>,
      <<29675, 1936, 1811, 32639, 3>>, <<18946, 2808, 10020, 25005, 11>>,
      <<20708, 1610, 23556, 32191, 3>>, <<20506, 12288, 28852, 25047, 3>>,
      <<27547, 32508, 28698, 32638, 3>>, <<30939, 27243, 25610, 25624, 3>>,
      <<20985, 23211, 21056, 32207, 3>>, <<7617, 32088, 9653, 25235, 3>>,
      <<24576, 5767, 22309, 32638, 3>>, <<4857, 5791, 7587, 25367, 11>>,
      <<14621, 2768, 18142, 32223, 3>>, <<19656, 15316, 17936, 25332, 3>>,
      <<6577, 29, 15410, 32638, 3>>, <<1708, 3491, 3934, 25461, 3>>,
      <<19686, 11651, 14780, 32239, 3>>, <<5747, 24430, 15928, 25128, 11>>,
      <<15496, 29091, 8001, 32638, 3>>, <<13957, 2299, 22345, 25603, 3>>,
      <<28214, 23821, 10939, 32255, 3>>, <<28731, 31117, 29386, 25175, 11>>,
      <<23507, 9466, 85, 32638, 3>>, <<28600, 8489, 9165, 25691, 3>>,
      <<29137, 7098, 19678, 32263, 3>>, <<3998, 25758, 4513, 25452, 3>>,
      <<1685, 22524, 24428, 32637, 3>>, <<23217, 27116, 30391, 25616, 3>>,
      <<20143, 12127, 17231, 32271, 3>>, <<27045, 4910, 15956, 25399, 11>>,
      <<19411, 19576, 15496, 32637, 3>>, <<10089, 9844, 11064, 25257, 11>>,
      <<14479, 15509, 14497, 32279, 3>>, <<24664, 3005, 13372, 25458, 11>>,
      <<14066, 18488, 6057, 32637, 3>>, <<19580, 23087, 13979, 25090, 3>>,
      <<26315, 22714, 11460, 32287, 3>>, <<19345, 22221, 30105, 25379, 3>>,
      <<17448, 5369, 28880, 32636, 3>>, <<29794, 3190, 28076, 25698, 3>>,
      <<29307, 7051, 8105, 32295, 3>>, <<29436, 21888, 10092, 25290, 3>>,
      <<19713, 110, 18429, 32636, 3>>, <<7756, 6773, 16637, 25406, 11>>,
      <<9971, 8002, 4415, 32303, 3>>, <<2486, 3199, 20748, 25399, 11>>,
      <<27894, 23613, 7472, 32636, 3>>, <<11030, 16998, 5203, 25699, 11>>,
      <<19788, 180, 375, 32311, 3>>, <<18752, 5891, 12658, 24217, 11>>,
      <<24100, 32255, 28779, 32635, 3>>, <<16561, 2282, 21871, 25543, 11>>,
      <<29365, 24437, 28736, 32318, 3>>, <<6083, 17529, 11587, 25133, 3>>,
      <<19996, 16189, 16815, 32635, 3>>, <<23732, 6253, 25376, 25652, 11>>,
      <<10564, 24053, 23948, 32326, 3>>, <<14675, 17815, 16009, 25360, 11>>,
      <<10957, 32112, 4347, 32635, 3>>, <<10412, 1020, 16427, 25525, 3>>,
      <<17170, 8605, 18763, 32334, 3>>, <<4989, 354, 4342, 25294, 3>>,
      <<26519, 6654, 24146, 32634, 3>>, <<12757, 31751, 26676, 25457, 3>>,
      <<1893, 21236, 13164, 32342, 3>>, <<19947, 12205, 8429, 25292, 11>>,
      <<14969, 31292, 10674, 32634, 3>>, <<15191, 23389, 30659, 25609, 3>>,
      <<24985, 7608, 7137, 32350, 3>>, <<3243, 21750, 1685, 25422, 3>>,
      <<20846, 1895, 29471, 32633, 3>>, <<13460, 9492, 26859, 25360, 11>>,
      <<2467, 12549, 665, 32358, 3>>, <<31851, 14224, 9026, 25411, 11>>,
      <<32749, 11943, 14999, 32633, 3>>, <<21891, 16045, 4229, 25702, 3>>,
      <<9680, 16235, 26501, 32365, 3>>, <<28610, 11672, 14467, 25369, 11>>,
      <<25759, 24844, 28, 32633, 3>>, <<6219, 11651, 20496, 25564, 3>>,
      <<26019, 32533, 19093, 32373, 3>>, <<11499, 24238, 30746, 25349, 11>>,
      <<1851, 5003, 17328, 32632, 3>>, <<4739, 27736, 16841, 25708, 3>>,
      <<5495, 10726, 11195, 32381, 3>>, <<12984, 8476, 30241, 25354, 11>>,
      <<28321, 16123, 1362, 32632, 3>>, <<19197, 13259, 28794, 25705, 3>>,
      <<5468, 32458, 17778, 32386, 3>>, <<3784, 15355, 25354, 25549, 11>>,
      <<12070, 24602, 17668, 32631, 3>>, <<21362, 4541, 10348, 25621, 11>>,
      <<25654, 7654, 13315, 32390, 3>>, <<25269, 6439, 27688, 25551, 11>>,
      <<28956, 30593, 711, 32631, 3>>, <<17329, 375, 29838, 25183, 11>>,
      <<24043, 21801, 8582, 32394, 3>>, <<5540, 27500, 8710, 25439, 11>>,
      <<28577, 2475, 16029, 32630, 3>>, <<16848, 5610, 13353, 25259, 11>>,
      <<14454, 18829, 3573, 32398, 3>>, <<20469, 31771, 475, 25507, 3>>,
      <<28584, 7917, 30853, 32629, 3>>, <<21566, 9588, 15996, 25601, 11>>,
      <<12086, 8757, 31048, 32401, 3>>, <<32536, 26269, 16896, 25511, 11>>,
      <<12111, 17271, 12417, 32629, 3>>, <<25997, 32040, 1876, 25366, 3>>,
      <<13471, 2173, 25463, 32405, 3>>, <<22535, 13285, 21730, 25354, 3>>,
      <<19843, 1871, 26259, 32628, 3>>, <<15592, 14218, 6444, 25617, 11>>,
      <<8071, 10249, 19578, 32409, 3>>, <<12332, 26648, 13018, 25584, 3>>,
      <<10733, 32339, 6842, 32628, 3>>, <<22695, 31606, 26091, 25673, 3>>,
      <<21464, 11987, 13386, 32413, 3>>, <<920, 2319, 30036, 24577, 3>>,
      <<15680, 16434, 19706, 32627, 3>>, <<19987, 27277, 2604, 25650, 11>>,
      <<26263, 19773, 6879, 32417, 3>>, <<17823, 11787, 10013, 25592, 11>>,
      <<27088, 26733, 32082, 32626, 3>>, <<18620, 8287, 11327, 25663, 3>>,
      <<15648, 13854, 50, 32421, 3>>, <<3757, 22369, 3817, 25537, 3>>,
      <<17564, 5716, 11205, 32626, 3>>, <<26675, 23828, 12928, 25652, 11>>,
      <<10106, 7889, 25659, 32424, 3>>, <<28915, 11229, 21957, 25561, 3>>,
      <<22181, 27905, 22610, 32625, 3>>, <<21047, 21506, 24142, 25491, 11>>,
      <<30103, 16197, 18162, 32428, 3>>, <<24779, 22655, 7470, 25406, 3>>,
      <<22209, 4953, 765, 32625, 3>>, <<25452, 4062, 699, 25267, 11>>,
      <<1909, 21007, 10320, 32432, 3>>, <<4403, 5969, 32608, 25304, 3>>,
      <<23502, 13319, 11205, 32624, 3>>, <<6886, 1262, 9116, 25343, 3>>,
      <<22519, 5233, 2126, 32436, 3>>, <<19117, 1160, 8776, 25580, 11>>,
      <<1886, 32123, 21164, 32623, 3>>, <<14020, 31950, 13865, 25713, 11>>,
      <<597, 18036, 26339, 32439, 3>>, <<23053, 7635, 12037, 25505, 3>>,
      <<10454, 8676, 30645, 32622, 3>>, <<8895, 10327, 803, 25460, 11>>,
      <<16916, 10988, 17417, 32443, 3>>, <<14030, 25239, 11100, 25399, 11>>,
      <<22802, 22322, 6879, 32622, 3>>, <<19765, 28379, 19857, 25253, 3>>,
      <<27982, 1936, 8120, 32447, 3>>, <<23282, 13694, 3827, 25563, 11>>,
      <<3715, 22289, 15405, 32621, 3>>, <<23786, 22204, 4728, 25681, 3>>,
      <<26953, 9476, 31208, 32450, 3>>, <<11488, 14015, 4154, 25541, 3>>,
      <<10716, 24291, 23456, 32620, 3>>, <<925, 11172, 22639, 25727, 3>>,
      <<6447, 20201, 21138, 32454, 3>>, <<25382, 21740, 10251, 25506, 3>>,
      <<31562, 12226, 31034, 32619, 3>>, <<28052, 27223, 24000, 25373, 11>>,
      <<18117, 21482, 10671, 32458, 3>>, <<16216, 31952, 29572, 25524, 11>>,
      <<16448, 3708, 5372, 32619, 3>>, <<27703, 1687, 2265, 25659, 11>>,
      <<1296, 1488, 32568, 32461, 3>>, <<12452, 17985, 30950, 25476, 3>>,
      <<6624, 17292, 12007, 32618, 3>>, <<3937, 28427, 21229, 25721, 3>>,
      <<3274, 14730, 21284, 32465, 3>>, <<20173, 30369, 17464, 25297, 11>>,
      <<31750, 6938, 18174, 32617, 3>>, <<19421, 24851, 884, 25587, 3>>,
      <<4727, 18241, 9581, 32469, 3>>, <<897, 25208, 9466, 25393, 11>>,
      <<5360, 25851, 23873, 32616, 3>>, <<9358, 15747, 21676, 25606, 3>>,
      <<5655, 2660, 30220, 32472, 3>>, <<29977, 5939, 2315, 25559, 11>>,
      <<11679, 29861, 29107, 32615, 3>>, <<10765, 8478, 22229, 25669, 3>>,
      <<11331, 25015, 17656, 32476, 3>>, <<16369, 24280, 25268, 25585, 11>>,
      <<741, 8501, 1110, 32615, 3>>, <<4250, 30306, 17638, 25615, 3>>,
      <<16547, 12130, 4652, 32480, 3>>, <<8103, 27389, 32665, 25356, 3>>,
      <<5934, 17765, 5418, 32614, 3>>, <<15000, 22352, 14424, 25383, 3>>,
      <<20894, 22783, 23967, 32483, 3>>, <<22566, 13434, 17716, 25333, 11>>,
      <<32011, 16268, 9266, 32613, 3>>, <<13410, 4284, 10757, 25379, 11>>,
      <<9503, 18345, 10059, 32487, 3>>, <<25240, 9653, 29224, 25367, 11>>,
      <<6788, 29084, 12655, 32612, 3>>, <<291, 17074, 20294, 25557, 3>>,
      <<30305, 26632, 28456, 32490, 3>>, <<17052, 20159, 10514, 25492, 3>>,
      <<25915, 16663, 15588, 32611, 3>>, <<23362, 30549, 1903, 25658, 11>>,
      <<7322, 10853, 13616, 32494, 3>>, <<32154, 17123, 21275, 25478, 3>>,
      <<5982, 5910, 18066, 32610, 3>>, <<10368, 30517, 28368, 25357, 11>>,
      <<10857, 688, 31067, 32497, 3>>, <<30863, 8499, 4616, 25221, 11>>,
      <<23937, 24635, 20090, 32609, 3>>, <<17856, 23813, 11223, 25701, 11>>,
      <<1520, 26774, 15265, 32501, 3>>, <<637, 31030, 9936, 25276, 11>>,
      <<32080, 3254, 21664, 32608, 3>>, <<26664, 9765, 18500, 25668, 11>>,
      <<31099, 22409, 31741, 32504, 3>>, <<21084, 29006, 18507, 25483, 3>>,
      <<30006, 4156, 22788, 32607, 3>>, <<10657, 11345, 28508, 25691, 3>>,
      <<15511, 20181, 14951, 32508, 3>>, <<163, 24154, 25922, 25294, 3>>,
      <<5365, 25093, 23464, 32606, 3>>, <<4253, 4376, 28403, 25496, 3>>,
      <<30074, 20901, 30424, 32511, 3>>, <<23402, 23840, 10852, 25466, 3>>,
      <<3890, 31942, 23695, 32605, 3>>, <<2617, 2650, 12105, 25529, 3>>,
      <<6485, 29581, 22692, 32513, 3>>, <<31489, 28786, 25397, 25622, 11>>,
      <<1038, 24241, 23483, 32604, 3>>, <<11744, 3871, 26867, 25250, 3>>,
      <<28251, 3368, 13530, 32515, 3>>, <<32539, 2673, 22201, 25631, 3>>,
      <<1218, 2414, 22830, 32603, 3>>, <<14491, 1078, 24867, 25722, 11>>,
      <<4097, 15676, 4104, 32517, 3>>, <<5366, 17010, 22798, 25655, 11>>,
      <<4174, 536, 21737, 32602, 3>>, <<31254, 3588, 32229, 25287, 3>>,
      <<26414, 19818, 27180, 32518, 3>>, <<26889, 24957, 25467, 25682, 11>>,
      <<2376, 20793, 20206, 32601, 3>>, <<27817, 14910, 6804, 25717, 3>>,
      <<7227, 2413, 17219, 32520, 3>>, <<6529, 12545, 17958, 25708, 3>>,
      <<9414, 709, 18241, 32600, 3>>, <<16578, 15863, 30040, 25486, 3>>,
      <<32642, 16150, 6984, 32522, 3>>, <<14760, 15438, 25933, 25567, 3>>,
      <<21109, 9751, 15842, 32599, 3>>, <<28564, 29416, 3465, 25596, 11>>,
      <<28080, 15965, 29241, 32523, 3>>, <<9352, 8284, 31068, 25370, 3>>,
      <<7653, 19949, 13012, 32598, 3>>, <<14028, 7085, 28074, 25671, 3>>,
      <<12253, 22880, 18450, 32525, 3>>, <<13823, 24983, 25649, 25336, 11>>,
      <<2323, 4193, 9754, 32597, 3>>, <<20592, 3994, 3928, 24668, 11>>,
      <<22348, 25708, 7376, 32527, 3>>, <<7514, 18920, 10494, 25489, 3>>,
      <<24621, 1767, 6069, 32596, 3>>, <<18322, 28861, 30744, 25421, 3>>,
      <<5327, 13831, 28784, 32528, 3>>, <<10801, 5703, 27849, 25330, 3>>,
      <<1711, 20043, 1959, 32595, 3>>, <<17727, 17914, 3267, 25644, 3>>,
      <<3003, 9969, 17134, 32530, 3>>, <<15566, 18607, 3904, 25589, 3>>,
      <<15823, 1701, 30196, 32593, 3>>, <<5737, 22851, 14059, 25652, 11>>,
      <<8295, 4655, 5191, 32532, 3>>, <<27504, 13122, 30663, 25600, 11>>,
      <<25669, 21341, 25244, 32592, 3>>, <<856, 26328, 30869, 25034, 3>>,
      <<16926, 21776, 25719, 32533, 3>>, <<27312, 13890, 3527, 25725, 11>>,
      <<12165, 23330, 19875, 32591, 3>>, <<5638, 2802, 18435, 25614, 11>>,
      <<12418, 20276, 13180, 32535, 3>>, <<25470, 16847, 21855, 25705, 3>>,
      <<24156, 18404, 14091, 32590, 3>>, <<16226, 9522, 26180, 25631, 3>>,
      <<15439, 25233, 338, 32537, 3>>, <<4955, 4788, 11528, 25723, 3>>,
      <<25876, 18132, 7894, 32589, 3>>, <<10153, 6463, 2879, 25657, 3>>,
      <<871, 29564, 19958, 32538, 3>>, <<16624, 30176, 18937, 25433, 3>>,
      <<4880, 2140, 1287, 32588, 3>>, <<28813, 2321, 32736, 25704, 3>>,
      <<10283, 26796, 6501, 32540, 3>>, <<1960, 21110, 16054, 25480, 11>>,
      <<12797, 16409, 27039, 32586, 3>>, <<1581, 17471, 31734, 25605, 11>>,
      <<1034, 11077, 25500, 32541, 3>>, <<28795, 20389, 22862, 25547, 11>>,
      <<7826, 9435, 19618, 32585, 3>>, <<3290, 1728, 24000, 25693, 11>>,
      <<21818, 9945, 11415, 32543, 3>>, <<4032, 17070, 5571, 25311, 11>>,
      <<23287, 28827, 11793, 32584, 3>>, <<15239, 5490, 31428, 25479, 11>>,
      <<26512, 18804, 29779, 32544, 3>>, <<27893, 9487, 575, 25635, 3>>,
      <<6865, 24699, 3568, 32583, 3>>, <<19448, 27258, 3730, 25379, 11>>,
      <<14443, 926, 15054, 32546, 3>>, <<21765, 15572, 13744, 25631, 11>>,
      <<18688, 13499, 27713, 32581, 3>>, <<29889, 32040, 3968, 25667, 3>>,
      <<5535, 18530, 3, 32548, 3>>, <<27920, 26823, 25897, 25688, 11>>,
      <<1823, 12475, 18694, 32580, 3>>, <<28036, 2087, 9063, 25698, 3>>,
      <<14177, 3413, 17393, 32549, 3>>, <<17818, 26393, 26645, 24838, 3>>,
      <<9926, 6895, 9282, 32579, 3>>, <<27101, 17791, 25599, 25497, 3>>,
      <<21787, 19101, 1683, 32551, 3>>, <<18282, 4975, 9406, 25682, 11>>,
      <<7328, 15584, 32247, 32577, 3>>, <<18152, 16695, 19261, 25098, 11>>,
      <<13596, 31478, 18407, 32552, 3>>, <<2097, 17289, 929, 25646, 11>>,
      <<27997, 25378, 22056, 32576, 3>>, <<10462, 5892, 8932, 25455, 11>>,
      <<14116, 7095, 2027, 32554, 3>>, <<21393, 2625, 19210, 25489, 3>>,
      <<5256, 23892, 11480, 32575, 3>>, <<5535, 18763, 30102, 25296, 3>>,
      <<22963, 11482, 18074, 32555, 3>>, <<12696, 6687, 4333, 25316, 3>>,
      <<25935, 32275, 521, 32574, 3>>, <<28264, 11861, 20315, 25443, 11>>,
      <<14866, 12546, 1010, 32557, 3>>, <<8827, 28584, 2954, 25708, 11>>,
      <<25923, 6910, 21951, 32572, 3>>, <<23268, 21416, 18907, 25685, 11>>,
      <<3853, 11647, 16368, 32558, 3>>, <<22410, 25046, 13005, 25675, 3>>,
      <<8479, 3242, 10235, 32571, 3>>, <<26821, 7960, 8023, 25409, 11>>,
      <<7767, 10837, 31377, 32559, 3>>, <<8375, 28636, 23355, 25605, 3>>,
      <<31649, 11933, 30912, 32569, 3>>, <<11615, 31529, 20152, 25390, 11>>,
      <<11385, 12867, 13266, 32561, 3>>, <<9242, 11116, 30305, 25718, 11>>,
      <<30328, 24398, 18449, 32568, 3>>, <<7297, 18949, 5826, 25633, 3>>,
      <<26453, 21191, 27568, 32562, 3>>, <<1340, 22242, 7141, 25609, 3>>,
      <<30046, 25, 5618, 32567, 3>>, <<20646, 15799, 2587, 25648, 3>>,
      <<19247, 7206, 8745, 32564, 3>>, <<21990, 27785, 24397, 25653, 11>>,
      <<31581, 30013, 25187, 32565, 3>>, <<29874, 3481, 27422, 25482, 3>>,
      <<538, 8559, 22329, 32565, 3>>, <<11791, 7904, 21590, 25390, 11>>,
      <<25171, 9686, 11626, 32564, 3>>, <<30876, 13067, 9323, 25677, 11>>,
      <<15841, 30849, 2781, 32567, 3>>, <<11603, 2815, 7334, 25479, 11>>,
      <<3258, 31703, 30471, 32562, 3>>, <<31863, 3686, 28781, 25291, 11>>,
      <<3136, 14869, 15636, 32568, 3>>, <<30477, 28938, 31608, 25419, 3>>,
      <<4551, 25603, 16191, 32561, 3>>, <<22255, 4782, 17678, 25452, 3>>,
      <<9592, 445, 28122, 32569, 3>>, <<4770, 3512, 4620, 25489, 11>>,
      <<25567, 19946, 1556, 32560, 3>>, <<13008, 16840, 12951, 25635, 3>>,
      <<13604, 28143, 7467, 32571, 3>>, <<1192, 10585, 29950, 25588, 3>>,
      <<29050, 11235, 19337, 32558, 3>>, <<2347, 2449, 17668, 25601, 3>>,
      <<7506, 8200, 19207, 32572, 3>>, <<21739, 23910, 31767, 25685, 11>>,
      <<16503, 29444, 4000, 32557, 3>>, <<15970, 20147, 8872, 25633, 3>>,
      <<13250, 15441, 30569, 32573, 3>>, <<915, 31130, 17509, 25174, 3>>,
      <<1010, 6941, 21086, 32555, 3>>, <<11555, 24144, 7250, 25722, 3>>,
      <<31065, 27142, 8783, 32575, 3>>, <<3148, 21706, 15342, 25607, 3>>,
      <<11429, 7858, 5060, 32554, 3>>, <<9775, 19855, 27555, 25715, 11>>,
      <<19364, 21340, 19383, 32576, 3>>, <<11738, 16000, 3115, 25660, 11>>,
      <<29658, 31479, 21461, 32552, 3>>, <<16985, 231, 26690, 25507, 3>>>>

\* toverp: the digits of 2/pi in base 2^24, as the doubles holding them.
toverp ==
    << <<0, 16384, 31937, 2850, 4>>, <<0, 0, 20036, 2780, 4>>,
      <<0, 0, 10224, 2473, 4>>, <<0, 0, 12194, 2589, 4>>,
      <<0, 16384, 6766, 2933, 4>>, <<0, 0, 28081, 2880, 4>>,
      <<0, 0, 19614, 2837, 4>>, <<0, 0, 4161, 2695, 4>>,
      <<0, 16384, 10417, 2942, 4>>, <<0, 16384, 28509, 2859, 4>>,
      <<0, 16384, 12507, 2885, 4>>, <<0, 0, 23668, 2577, 4>>,
      <<0, 0, 19922, 2692, 4>>, <<0, 16384, 804, 2912, 4>>,
      <<0, 0, 21522, 2619, 4>>, <<0, 0, 18702, 2897, 4>>,
      <<0, 16384, 3829, 2942, 4>>, <<0, 0, 17572, 2533, 4>>,
      <<0, 0, 8052, 2855, 4>>, <<0, 16384, 6906, 2818, 4>>,
      <<0, 0, 30344, 2618, 4>>, <<0, 0, 29902, 2820, 4>>,
      <<0, 0, 9908, 2784, 4>>, <<0, 0, 32321, 2750, 4>>,
      <<0, 0, 9132, 2662, 4>>, <<0, 0, 1702, 2662, 4>>,
      <<0, 0, 26936, 2663, 4>>, <<0, 16384, 12229, 2820, 4>>,
      <<0, 0, 31892, 2877, 4>>, <<0, 0, 16368, 2668, 4>>,
      <<0, 0, 32751, 2839, 4>>, <<0, 0, 240, 2227, 4>>,
      <<0, 16384, 6024, 2927, 4>>, <<0, 0, 11525, 2827, 4>>,
      <<0, 0, 8045, 2778, 4>>, <<0, 0, 32158, 2649, 4>>,
      <<0, 0, 5650, 2591, 4>>, <<0, 0, 10147, 2871, 4>>,
      <<0, 0, 19772, 2685, 4>>, <<0, 0, 27181, 2751, 4>>,
      <<0, 0, 10170, 2794, 4>>, <<0, 16384, 30194, 2887, 4>>,
      <<0, 16384, 15774, 2929, 4>>, <<0, 0, 8048, 2279, 4>>,
      <<0, 0, 10569, 2826, 4>>, <<0, 16384, 13821, 2922, 4>>,
      <<0, 0, 12575, 2751, 4>>, <<0, 0, 11908, 2829, 4>>,
      <<0, 0, 816, 2732, 4>>, <<0, 0, 31867, 2701, 4>>,
      <<0, 0, 11248, 2775, 4>>, <<0, 0, 24080, 2895, 4>>,
      <<0, 0, 31259, 2842, 4>>, <<0, 0, 10124, 2541, 4>>,
      <<0, 0, 12463, 2833, 4>>, <<0, 0, 3460, 2918, 4>>,
      <<0, 0, 6533, 2763, 4>>, <<0, 0, 5280, 2750, 4>>,
      <<0, 0, 16525, 2768, 4>>, <<0, 0, 27712, 2943, 4>>,
      <<0, 0, 29479, 2714, 4>>, <<0, 0, 3084, 2628, 4>>,
      <<0, 0, 23336, 2474, 4>>, <<0, 0, 10441, 2791, 4>>,
      <<0, 0, 25211, 2753, 4>>, <<0, 16384, 17973, 2880, 4>>,
      <<0, 0, 17433, 2703, 4>>, <<0, 16384, 13286, 2883, 4>>,
      <<0, 16384, 29700, 2908, 4>>, <<0, 0, 1714, 2602, 4>>,
      <<0, 16384, 15173, 2884, 4>>, <<0, 0, 3667, 2838, 4>>,
      <<0, 0, 22434, 2909, 4>>, <<0, 16384, 11148, 2897, 4>>,
      <<0, 0, 27216, 2215, 4>>>>

\* __pow_log_data.tab: invc, logc and logctail of the 128 subintervals of
\* [0x1.69555p-1, 0x1.69555p0), as 64-bit words.
pow_log_tab ==
    << <<0, 0, 0, 32693, 3>>, <<18432, 25971, 12811, 32433, 11>>,
      <<22144, 20590, 20624, 26581, 3>>, <<0, 0, 0, 32692, 3>>,
      <<2048, 32432, 18166, 32430, 11>>, <<30496, 12737, 5155, 26853, 11>>,
      <<0, 0, 0, 32691, 3>>, <<22528, 11914, 23004, 32427, 11>>,
      <<20589, 11116, 2707, 26907, 11>>, <<0, 0, 0, 32690, 3>>,
      <<30720, 3675, 27318, 32424, 11>>, <<26581, 15712, 5010, 26420, 11>>,
      <<0, 0, 0, 32689, 3>>, <<30720, 10990, 31102, 32421, 11>>,
      <<16096, 9810, 28070, 26656, 11>>, <<0, 0, 0, 32688, 3>>,
      <<24576, 1080, 1583, 32419, 11>>, <<1228, 4249, 24765, 26782, 3>>,
      <<0, 0, 0, 32687, 3>>, <<10240, 3341, 4290, 32416, 11>>,
      <<2874, 23300, 3023, 26338, 3>>, <<0, 0, 0, 32686, 3>>,
      <<18432, 10962, 6449, 32413, 11>>, <<5216, 3235, 18202, 26885, 3>>,
      <<0, 0, 0, 32685, 3>>, <<0, 13617, 8054, 32410, 11>>,
      <<146, 10635, 25911, 26922, 3>>, <<0, 0, 0, 32684, 3>>,
      <<8192, 30146, 9098, 32407, 11>>, <<11224, 13166, 27770, 26931, 3>>,
      <<0, 0, 0, 32683, 3>>, <<2048, 10173, 9576, 32404, 11>>,
      <<12351, 28063, 10322, 26798, 3>>, <<0, 0, 0, 32683, 3>>,
      <<2048, 10173, 9576, 32404, 11>>, <<12351, 28063, 10322, 26798, 3>>,
      <<0, 0, 0, 32682, 3>>, <<30720, 30622, 9479, 32401, 11>>,
      <<23158, 20647, 26768, 26802, 11>>, <<0, 0, 0, 32681, 3>>,
      <<6144, 723, 8803, 32398, 11>>, <<21508, 20942, 16113, 26877, 11>>,
      <<0, 0, 0, 32680, 3>>, <<10240, 22359, 7538, 32395, 11>>,
      <<10480, 26373, 32536, 26872, 3>>, <<0, 0, 0, 32679, 3>>,
      <<18432, 29532, 5679, 32392, 11>>, <<23142, 31242, 8979, 26933, 11>>,
      <<0, 0, 0, 32678, 3>>, <<4096, 17639, 3219, 32389, 11>>,
      <<782, 32232, 12217, 26723, 11>>, <<0, 0, 0, 32677, 3>>,
      <<20480, 10601, 150, 32386, 11>>, <<11647, 15848, 23266, 26497, 11>>,
      <<0, 0, 0, 32677, 3>>, <<20480, 10601, 150, 32386, 11>>,
      <<11647, 15848, 23266, 26497, 11>>, <<0, 0, 0, 32676, 3>>,
      <<16384, 23228, 25697, 32381, 11>>, <<15495, 22322, 23722, 26730, 3>>,
      <<0, 0, 0, 32675, 3>>, <<24576, 6072, 17079, 32375, 11>>,
      <<12068, 14605, 6878, 26969, 3>>, <<0, 0, 0, 32674, 3>>,
      <<28672, 23637, 7197, 32369, 11>>, <<32528, 10367, 15677, 26809, 11>>,
      <<0, 0, 0, 32673, 3>>, <<16384, 22175, 28805, 32362, 11>>,
      <<26651, 30612, 27206, 26893, 3>>, <<0, 0, 0, 32672, 3>>,
      <<8192, 3893, 16351, 32356, 11>>, <<1076, 20799, 25917, 26939, 3>>,
      <<0, 0, 0, 32672, 3>>, <<8192, 3893, 16351, 32356, 11>>,
      <<1076, 20799, 25917, 26939, 3>>, <<0, 0, 0, 32671, 3>>,
      <<4096, 26715, 2585, 32350, 11>>, <<14223, 25367, 15040, 26826, 3>>,
      <<0, 0, 0, 32670, 3>>, <<16384, 7425, 20261, 32343, 11>>,
      <<4198, 32667, 14732, 26066, 3>>, <<0, 0, 0, 32669, 3>>,
      <<12288, 16325, 3824, 32337, 11>>, <<16874, 14477, 12691, 26924, 11>>,
      <<0, 0, 0, 32669, 3>>, <<12288, 16325, 3824, 32337, 11>>,
      <<16874, 14477, 12691, 26924, 11>>, <<0, 0, 0, 32668, 3>>,
      <<20480, 14824, 18794, 32330, 11>>, <<21731, 2435, 18276, 26966, 11>>,
      <<0, 0, 0, 32667, 3>>, <<20480, 19009, 32385, 32323, 11>>,
      <<31241, 32695, 30461, 26973, 3>>, <<0, 0, 0, 32666, 3>>,
      <<24576, 1057, 11812, 32317, 11>>, <<19032, 25766, 28225, 26974, 3>>,
      <<0, 0, 0, 32666, 3>>, <<24576, 1057, 11812, 32317, 11>>,
      <<19032, 25766, 28225, 26974, 3>>, <<0, 0, 0, 32665, 3>>,
      <<20480, 20019, 22591, 32310, 11>>, <<25190, 18277, 4522, 26759, 11>>,
      <<0, 0, 0, 32664, 3>>, <<4096, 24911, 31937, 32303, 11>>,
      <<20537, 15904, 30990, 26868, 11>>, <<0, 0, 0, 32664, 3>>,
      <<4096, 24911, 31937, 32303, 11>>, <<20537, 15904, 30990, 26868, 11>>,
      <<0, 0, 0, 32663, 3>>, <<12288, 18243, 7063, 32297, 11>>,
      <<23439, 8206, 31278, 26886, 11>>, <<0, 0, 0, 32662, 3>>,
      <<0, 22935, 13485, 32290, 11>>, <<30780, 17002, 13061, 26808, 3>>,
      <<0, 0, 0, 32662, 3>>, <<0, 22935, 13485, 32290, 11>>,
      <<30780, 17002, 13061, 26808, 3>>, <<0, 0, 0, 32661, 3>>,
      <<4096, 16445, 18416, 32283, 11>>, <<21562, 6734, 25113, 26507, 3>>,
      <<0, 0, 0, 32660, 3>>, <<28672, 28735, 21835, 32276, 11>>,
      <<17416, 12003, 13504, 26916, 11>>, <<0, 0, 0, 32659, 3>>,
      <<24576, 10846, 23723, 32269, 11>>, <<9110, 12323, 656, 26996, 11>>,
      <<0, 0, 0, 32659, 3>>, <<24576, 10846, 23723, 32269, 11>>,
      <<9110, 12323, 656, 26996, 11>>, <<0, 0, 0, 32658, 3>>,
      <<4096, 31137, 24057, 32262, 11>>, <<23540, 4560, 9818, 26707, 3>>,
      <<0, 0, 0, 32658, 3>>, <<4096, 31137, 24057, 32262, 11>>,
      <<23540, 4560, 9818, 26707, 3>>, <<0, 0, 0, 32657, 3>>,
      <<24576, 25527, 12868, 32255, 11>>, <<13298, 14662, 21841, 26923, 11>>,
      <<0, 0, 0, 32656, 3>>, <<0, 23638, 7197, 32241, 11>>,
      <<60, 21984, 20656, 26961, 3>>, <<0, 0, 0, 32656, 3>>,
      <<0, 23638, 7197, 32241, 11>>, <<60, 21984, 20656, 26961, 3>>,
      <<0, 0, 0, 32655, 3>>, <<16384, 7863, 31058, 32226, 11>>,
      <<15878, 12479, 12637, 26856, 11>>, <<0, 0, 0, 32654, 3>>,
      <<24576, 29845, 18868, 32212, 11>>, <<10952, 20663, 25815, 26921, 3>>,
      <<0, 0, 0, 32654, 3>>, <<24576, 29845, 18868, 32212, 11>>,
      <<10952, 20663, 25815, 26921, 3>>, <<0, 0, 0, 32653, 3>>,
      <<8192, 11363, 3351, 32198, 11>>, <<22120, 6750, 28837, 26779, 3>>,
      <<0, 0, 0, 32653, 3>>, <<8192, 11363, 3351, 32198, 11>>,
      <<22120, 6750, 28837, 26779, 3>>, <<0, 0, 0, 32652, 3>>,
      <<24576, 5578, 17226, 32183, 11>>, <<29658, 4710, 23775, 26932, 11>>,
      <<0, 0, 0, 32651, 3>>, <<8192, 32268, 27676, 32168, 11>>,
      <<24151, 17292, 2413, 26872, 3>>, <<0, 0, 0, 32651, 3>>,
      <<8192, 32268, 27676, 32168, 11>>, <<24151, 17292, 2413, 26872, 3>>,
      <<0, 0, 0, 32650, 3>>, <<24576, 11319, 1886, 32154, 11>>,
      <<5087, 6642, 31595, 26978, 3>>, <<0, 0, 0, 32650, 3>>,
      <<24576, 11319, 1886, 32154, 11>>, <<5087, 6642, 31595, 26978, 3>>,
      <<0, 0, 0, 32649, 3>>, <<0, 23879, 5339, 32139, 11>>,
      <<8969, 27935, 29049, 26787, 3>>, <<0, 0, 0, 32648, 3>>,
      <<0, 35, 10435, 32120, 11>>, <<3729, 1645, 26234, 26986, 3>>,
      <<0, 0, 0, 32648, 3>>, <<0, 35, 10435, 32120, 11>>,
      <<3729, 1645, 26234, 26986, 3>>, <<0, 0, 0, 32647, 3>>,
      <<0, 25139, 2933, 32090, 11>>, <<28748, 19372, 2539, 26852, 3>>,
      <<0, 0, 0, 32647, 3>>, <<0, 25139, 2933, 32090, 11>>,
      <<28748, 19372, 2539, 26852, 3>>, <<0, 0, 0, 32646, 3>>,
      <<16384, 27749, 20835, 32059, 11>>, <<8686, 27109, 28952, 26983, 11>>,
      <<0, 0, 0, 32646, 3>>, <<16384, 27749, 20835, 32059, 11>>,
      <<8686, 27109, 28952, 26983, 11>>, <<0, 0, 0, 32645, 3>>,
      <<16384, 29693, 31262, 32028, 11>>, <<32426, 27213, 2783, 26536, 3>>,
      <<0, 0, 0, 32645, 3>>, <<16384, 29693, 31262, 32028, 11>>,
      <<32426, 27213, 2783, 26536, 3>>, <<0, 0, 0, 32644, 3>>,
      <<0, 7408, 2668, 31996, 11>>, <<2532, 30972, 153, 26956, 11>>,
      <<0, 0, 0, 32644, 3>>, <<0, 7408, 2668, 31996, 11>>,
      <<2532, 30972, 153, 26956, 11>>, <<0, 0, 0, 32643, 3>>,
      <<0, 4011, 25708, 31933, 11>>, <<9785, 10229, 13650, 26948, 11>>,
      <<0, 0, 0, 32642, 3>>, <<0, 25080, 674, 31870, 11>>,
      <<9884, 28071, 31219, 26360, 11>>, <<0, 0, 0, 32642, 3>>,
      <<0, 25080, 674, 31870, 11>>, <<9884, 28071, 31219, 26360, 11>>,
      <<0, 0, 0, 32641, 3>>, <<0, 22048, 169, 31743, 11>>,
      <<16612, 7092, 2300, 26831, 11>>, <<0, 0, 0, 32641, 3>>,
      <<0, 22048, 169, 31743, 11>>, <<16612, 7092, 2300, 26831, 11>>,
      <<0, 0, 0, 32640, 3>>, <<>>, <<>>, <<0, 0, 0, 32640, 3>>, <<>>, <<>>,
      <<0, 0, 0, 32638, 3>>, <<0, 27410, 16469, 31744, 3>>,
      <<11240, 13114, 7598, 26758, 11>>, <<0, 0, 0, 32636, 3>>,
      <<0, 12583, 345, 31873, 3>>, <<30674, 3525, 29036, 26910, 11>>,
      <<0, 0, 0, 32634, 3>>, <<0, 20882, 9364, 31938, 3>>,
      <<3124, 25780, 744, 26965, 11>>, <<0, 0, 0, 32632, 3>>,
      <<16384, 5070, 1398, 32002, 3>>, <<22355, 14819, 18177, 26632, 3>>,
      <<0, 0, 0, 32630, 3>>, <<0, 10332, 6843, 32035, 3>>,
      <<32040, 27515, 22989, 26976, 11>>, <<0, 0, 0, 32628, 3>>,
      <<16384, 10559, 21160, 32068, 3>>, <<9853, 8372, 26199, 26827, 11>>,
      <<0, 0, 0, 32626, 3>>, <<16384, 7099, 11727, 32102, 3>>,
      <<10247, 4016, 9161, 26835, 11>>, <<0, 0, 0, 32625, 3>>,
      <<16384, 13, 10439, 32119, 3>>, <<15227, 8082, 17657, 26736, 11>>,
      <<0, 0, 0, 32623, 3>>, <<24576, 8844, 23791, 32140, 3>>,
      <<7835, 11291, 18805, 26921, 11>>, <<0, 0, 0, 32621, 3>>,
      <<24576, 20387, 30678, 32157, 3>>, <<20183, 19382, 8570, 26982, 3>>,
      <<0, 0, 0, 32619, 3>>, <<8192, 6959, 9577, 32175, 3>>,
      <<7454, 30906, 9240, 26979, 11>>, <<0, 0, 0, 32618, 3>>,
      <<16384, 5589, 844, 32184, 3>>, <<27954, 21307, 31286, 26464, 3>>,
      <<0, 0, 0, 32616, 3>>, <<16384, 15026, 19833, 32201, 3>>,
      <<18394, 30074, 17776, 26904, 3>>, <<0, 0, 0, 32614, 3>>,
      <<24576, 7002, 11042, 32219, 3>>, <<26853, 22510, 16896, 26780, 11>>,
      <<0, 0, 0, 32613, 3>>, <<16384, 888, 8544, 32228, 3>>,
      <<11475, 3253, 6983, 26930, 3>>, <<0, 0, 0, 32611, 3>>,
      <<8192, 1556, 7398, 32246, 3>>, <<17888, 24524, 418, 26990, 11>>,
      <<0, 0, 0, 32610, 3>>, <<24576, 29623, 8772, 32255, 3>>,
      <<2813, 8002, 21337, 26921, 11>>, <<0, 0, 0, 32608, 3>>,
      <<24576, 1103, 24122, 32264, 3>>, <<2034, 7258, 15843, 26895, 3>>,
      <<0, 0, 0, 32607, 3>>, <<28672, 31815, 10413, 32269, 3>>,
      <<6452, 2161, 7737, 26981, 3>>, <<0, 0, 0, 32605, 3>>,
      <<0, 6413, 17796, 32278, 3>>, <<13473, 5891, 30131, 26652, 3>>,
      <<0, 0, 0, 32604, 3>>, <<4096, 24619, 6130, 32283, 3>>,
      <<29321, 18070, 16032, 26161, 3>>, <<0, 0, 0, 32602, 3>>,
      <<12288, 1639, 17654, 32292, 3>>, <<13944, 10747, 3557, 26924, 3>>,
      <<0, 0, 0, 32601, 3>>, <<12288, 18755, 8087, 32297, 3>>,
      <<32199, 19154, 20387, 26929, 3>>, <<0, 0, 0, 32599, 3>>,
      <<4096, 32024, 23866, 32306, 3>>, <<11896, 22648, 15916, 26830, 3>>,
      <<0, 0, 0, 32598, 3>>, <<28672, 5866, 16458, 32311, 3>>,
      <<8673, 19256, 17975, 26920, 11>>, <<0, 0, 0, 32597, 3>>,
      <<20480, 2696, 9782, 32316, 3>>, <<17157, 24866, 6209, 26851, 11>>,
      <<0, 0, 0, 32595, 3>>, <<0, 22130, 31423, 32325, 3>>,
      <<11473, 21970, 30034, 26681, 11>>, <<0, 0, 0, 32594, 3>>,
      <<0, 14830, 26987, 32330, 3>>, <<32623, 12609, 18593, 26687, 3>>,
      <<0, 0, 0, 32592, 3>>, <<24576, 30997, 20404, 32340, 3>>,
      <<8553, 8364, 18701, 26947, 11>>, <<0, 0, 0, 32591, 3>>,
      <<20480, 11959, 18273, 32345, 3>>, <<25002, 7513, 22069, 26721, 11>>,
      <<0, 0, 0, 32590, 3>>, <<24576, 28791, 16924, 32350, 3>>,
      <<4790, 12968, 12049, 26986, 11>>, <<0, 0, 0, 32589, 3>>,
      <<4096, 3552, 16367, 32355, 3>>, <<11218, 2860, 12747, 26511, 11>>,
      <<0, 0, 0, 32587, 3>>, <<4096, 25001, 17654, 32365, 3>>,
      <<12341, 28203, 31915, 26967, 11>>, <<0, 0, 0, 32586, 3>>,
      <<4096, 32718, 19515, 32370, 3>>, <<29744, 16515, 18589, 26128, 3>>,
      <<0, 0, 0, 32585, 3>>, <<0, 18874, 22199, 32375, 3>>,
      <<3601, 19319, 1109, 26193, 11>>, <<0, 0, 0, 32584, 3>>,
      <<12288, 22887, 25713, 32380, 3>>, <<24368, 5145, 12211, 26846, 3>>,
      <<0, 0, 0, 32582, 3>>, <<22528, 16538, 17633, 32387, 3>>,
      <<20113, 11738, 29548, 26564, 3>>, <<0, 0, 0, 32581, 3>>,
      <<24576, 20162, 4277, 32390, 3>>, <<27369, 11385, 25132, 26936, 3>>,
      <<0, 0, 0, 32580, 3>>, <<26624, 1103, 24122, 32392, 3>>,
      <<28700, 18251, 1081, 26977, 11>>, <<0, 0, 0, 32579, 3>>,
      <<30720, 5977, 11635, 32395, 3>>, <<5761, 28490, 27447, 26972, 3>>,
      <<0, 0, 0, 32578, 3>>, <<26624, 18100, 32357, 32397, 3>>,
      <<15799, 8847, 7093, 26981, 3>>, <<0, 0, 0, 32577, 3>>,
      <<14336, 23069, 20757, 32400, 3>>, <<15082, 29837, 8058, 26708, 3>>,
      <<0, 0, 0, 32575, 3>>, <<4096, 31161, 31681, 32405, 3>>,
      <<1268, 5280, 29673, 26964, 3>>, <<0, 0, 0, 32574, 3>>,
      <<24576, 17318, 21447, 32408, 3>>, <<15544, 9794, 2539, 26951, 11>>,
      <<0, 0, 0, 32573, 3>>, <<4096, 28028, 11677, 32411, 3>>,
      <<30664, 25058, 15158, 26763, 3>>, <<0, 0, 0, 32572, 3>>,
      <<12288, 28262, 2377, 32414, 3>>, <<15708, 27661, 27986, 26817, 3>>,
      <<0, 0, 0, 32571, 3>>, <<26624, 18347, 26320, 32416, 3>>,
      <<24733, 22817, 4315, 26695, 3>>, <<0, 0, 0, 32570, 3>>,
      <<18432, 1251, 17975, 32419, 3>>, <<22133, 4815, 7992, 27001, 11>>,
      <<0, 0, 0, 32569, 3>>, <<12288, 15406, 10114, 32422, 3>>,
      <<22692, 13845, 548, 26993, 11>>, <<0, 0, 0, 32568, 3>>,
      <<8192, 3697, 2744, 32425, 3>>, <<18265, 713, 31170, 26997, 3>>,
      <<0, 0, 0, 32567, 3>>, <<20480, 10129, 28637, 32427, 3>>,
      <<16623, 23738, 14263, 26877, 3>>, <<0, 0, 0, 32566, 3>>,
      <<24576, 16050, 22263, 32430, 3>>, <<26076, 4424, 11432, 26704, 11>>>>

(***************************************************************************)
(* exp (e_exp.c): exp(x) = 2^(k/128) exp(r) for x = k ln2/128 + r.         *)
(***************************************************************************)
\* specialcase, the result above 2^1009: the scale is taken 2^1009 lower
\* and the result multiplied back.
exp_special_large(tmp, sbits) ==
    Bind(FOfBits(U64Add(sbits, BNShl(BN(4096 - 1009), 52))), LAMBDA scale :
         FMul(FScale(F1, 1009), FFma(scale, tmp, scale)))

\* specialcase, the result below 2^-1009, y = scale + scale * tmp with the
\* scale 2^1022 higher: a y below 1 is rounded where the subnormal result
\* will be, before it is multiplied back.
exp_special_small(scale, st, y) ==
    IF Ready(y) /\ FLt(y, F1)
    THEN Bind(FAdd(F1, y), LAMBDA hi :
         Bind(FAdd(FAdd(FSub(F1, hi), y), FAdd(FSub(scale, y), st)), LAMBDA lo :
              FMul(FScale(F1, -1022), FSub(FAdd(hi, lo), F1))))
    ELSE FMul(FScale(F1, -1022), y)

\* specialcase(tmp, sbits, ki): k > 0 when bit 31 of ki is clear.
exp_specialcase(tmp, sbits, ki) ==
    IF Ready(ki) /\ ~BNIsOdd(BNShr(ki, 31))
    THEN exp_special_large(tmp, sbits)
    ELSE Bind(FOfBits(U64Add(sbits, BNShl(BN(1022), 52))), LAMBDA scale :
         Bind(FMul(scale, tmp), LAMBDA st :
              exp_special_small(scale, st, FAdd(scale, st))))

\* The end of exp and of pow's exp_inline: r is the reduced argument, ki the
\* word of k + shift, and abstop = 0 marks a result that may leave the
\* normal range.
exp_poly(r, ki, abstop) ==
    LET D    == exp_data
        idx  == 2 * BNToInt(BNLow(ki, 7))
        top  == BNLow(BNShl(ki, 45), 64)
        tail == FOfBits(exp_tab[idx + 1])
    IN  IF Ready(r) /\ Ready(ki)
        THEN Bind(U64Add(exp_tab[idx + 2], top), LAMBDA sbits :
             Bind(FMul(r, r), LAMBDA r2 :
             Bind(FFma(FMul(r2, r2), FFma(r, D.C5, D.C4),
                       FFma(FFma(r, D.C3, D.C2), r2, FAdd(r, tail))),
                  LAMBDA tmp :
                  IF abstop = 0 THEN exp_specialcase(tmp, sbits, ki)
                  ELSE Bind(FOfBits(sbits), LAMBDA scale :
                            FFma(scale, tmp, scale)))))
        ELSE FZero

\* exp_inline(x, xtail): exp(x + xtail); |x| < 2^-54 gives 1 + x, |x| >= 1024
\* zero or infinity, and 512 <= |x| < 1024 takes specialcase.  kd + shift
\* has k, the nearest integer to x * 128 / ln2, in its low bits, and
\* r = x - k ln2/128 is taken in two steps.
exp_inline(x, xtail) ==
    LET D      == exp_data
        abstop == FExpField(x)
    IN  IF Ready(x) /\ abstop < 969 THEN FAdd(F1, x)
        ELSE IF abstop >= 1033 THEN (IF x.s = 1 THEN FZero ELSE FInf)
        ELSE Bind(FFma(x, D.invln2N, D.shift), LAMBDA kds :
             Bind(FSub(kds, D.shift), LAMBDA kd :
                  exp_poly(FAdd(xtail, FFma(kd, D.negln2loN,
                                            FFma(kd, D.negln2hiN, x))),
                           FBits(kds), IF abstop > 1031 THEN 0 ELSE abstop)))

\* math.exp(a), infinite where math.exp raises OverflowError.
PyExp(a) == exp_inline(a, FZero)

(***************************************************************************)
(* cos (s_sin.c, branred.c).                                               *)
(***************************************************************************)
\* SINCOS_TABLE_LOOKUP: entry j of the four at the index k, which
\* u = big + |x| has in its low word.
sincos_entry(k, j) == FOfBits(sincostab[4 * k + j])

\* do_cos(a, da): cos(a + da) for |a| < 0.855469.
do_cos(a, da) ==
    LET D  == sincos_data
        dx == IF a.s = 1 THEN FNeg(da) ELSE da
    IN  IF Ready(a) /\ Ready(da)
        THEN Bind(FAdd(FAbs(a), D.big), LAMBDA u :
             Bind(FAdd(FSub(FAbs(a), FSub(u, D.big)), dx), LAMBDA x :
             Bind(FMul(x, x), LAMBDA xx :
             Bind(FFma(FMul(x, xx), FFma(D.sn5, xx, D.sn3), x), LAMBDA s :
             Bind(FMul(xx, FFma(FFma(D.cs6, xx, D.cs4), xx, D.cs2)), LAMBDA c :
             Bind(BNToInt(BNLow(FBits(u), 32)), LAMBDA k :
             Bind(sincos_entry(k, 3), LAMBDA cs :
                  FAdd(cs, FFma(FNeg(s), sincos_entry(k, 1),
                                FFma(FNeg(c), cs,
                                     FFma(FNeg(s), sincos_entry(k, 2),
                                          sincos_entry(k, 4))))))))))))
        ELSE FZero

\* TAYLOR_SIN(a * a, a, da)
TAYLOR_SIN(a, da) ==
    LET D == sincos_data
    IN  Bind(FMul(a, a), LAMBDA xx :
             FAdd(FFma(xx, FFma(FFma(FFma(FFma(FFma(D.s5, xx, D.s4), xx, D.s3),
                                          xx, D.s2), xx, D.s1),
                                a, FNeg(FMul(da, D.cs2))), da),
                  a))

\* do_sin(a, da): sin(a + da) for |a| < 0.855469, by TAYLOR_SIN below 0.126.
do_sin(a, da) ==
    LET D  == sincos_data
        dx == IF a.s = 1 THEN FNeg(da) ELSE da
    IN  IF Ready(a) /\ Ready(da) /\ FLt(FAbs(a), D.taylor)
        THEN TAYLOR_SIN(a, da)
        ELSE Bind(FAdd(FAbs(a), D.big), LAMBDA u :
             Bind(FSub(FAbs(a), FSub(u, D.big)), LAMBDA x :
             Bind(FMul(x, x), LAMBDA xx :
             Bind(FAdd(x, FFma(FMul(x, xx), FFma(D.sn5, xx, D.sn3), dx)),
                  LAMBDA s :
             Bind(FFma(dx, x, FMul(xx, FFma(FFma(D.cs6, xx, D.cs4), xx, D.cs2))),
                  LAMBDA c :
             Bind(BNToInt(BNLow(FBits(u), 32)), LAMBDA k :
                  FCopySign(FAdd(sincos_entry(k, 1),
                                 FFma(s, sincos_entry(k, 3),
                                      FFma(FNeg(c), sincos_entry(k, 1),
                                           FFma(s, sincos_entry(k, 4),
                                                sincos_entry(k, 2))))),
                            a)))))))

\* do_sincos(a, da, n): the quadrant n picks sin or cos and the sign.
do_sincos(a, da, n) ==
    Bind(IF n % 2 = 1 THEN do_cos(a, da) ELSE do_sin(a, da), LAMBDA retval :
         IF (n \div 2) % 2 = 1 THEN FNeg(retval) ELSE retval)

\* do_sincos on <<n, a, da>>, a reduced argument, for the cosine.
cos_reduced(red) ==
    IF Ready(red) THEN do_sincos(red[2], red[3], red[1] + 1) ELSE FZero

\* reduce_sincos(x): <<n, a, da>> with x = n pi/2 + a + da, for
\* |x| < 105414350; n is in the low bits of t.
reduce_sincos(x) ==
    LET D == sincos_data
    IN  IF Ready(x)
        THEN Bind(FFma(x, D.hpinv, D.toint), LAMBDA t :
             Bind(FNeg(FSub(t, D.toint)), LAMBDA nxn :
             Bind(FFma(nxn, D.mp2, FFma(nxn, D.mp1, x)), LAMBDA y :
             Bind(FFma(nxn, D.pp3, y), LAMBDA t2 :
             Bind(FFma(nxn, D.pp4, t2), LAMBDA b :
                  <<BNToInt(BNLow(FBits(t), 2)), b,
                    FAdd(FFma(nxn, D.pp3, FSub(y, t2)),
                         FFma(nxn, D.pp4, FSub(t2, b)))>>)))))
        ELSE <<>>

\* The second half of a pass of __branred: the sum t of the six products
\* from the last one up, what the sum lost, and the integer part.
branred_sum(r0, r1, r2, r3, r4, r5, sum) ==
    LET D == branred_data
    IN  IF Ready(r0) /\ Ready(r1) /\ Ready(r2) /\ Ready(sum)
        THEN Bind(FAdd(FAdd(FAdd(FAdd(FAdd(FAdd(F0, r5), r4), r3), r2), r1), r0),
                  LAMBDA t :
             Bind(FAdd(FAdd(FAdd(FAdd(FAdd(FSub(r0, t), r1), r2), r3), r4), r5),
                  LAMBDA bb0 :
             Bind(FSub(FAdd(t, D.big), D.big), LAMBDA s :
             Bind(FAdd(sum, s), LAMBDA sm :
             Bind(FSub(t, s), LAMBDA t1 :
             Bind(FAdd(t1, bb0), LAMBDA b :
                  <<b, FAdd(FSub(t1, b), bb0),
                    FSub(sm, FSub(FAdd(sm, D.big1), D.big1))>>))))))
        ELSE <<>>

\* The first half: the integer parts of the first three products are taken
\* out of them and added up.
branred_products(r0, r1, r2, r3, r4, r5) ==
    LET D == branred_data
    IN  IF Ready(r0) /\ Ready(r1) /\ Ready(r2) /\ Ready(r3) /\ Ready(r4)
           /\ Ready(r5)
        THEN Bind(FSub(FAdd(r0, D.big), D.big), LAMBDA i0 :
             Bind(FSub(FAdd(r1, D.big), D.big), LAMBDA i1 :
             Bind(FSub(FAdd(r2, D.big), D.big), LAMBDA i2 :
                  branred_sum(FSub(r0, i0), FSub(r1, i1), FSub(r2, i2),
                              r3, r4, r5, FAdd(FAdd(FAdd(F0, i0), i1), i2)))))
        ELSE <<>>

\* r[i] = x1 * toverp[k + i] * gor, gor = 2^(576 - 24 (k + i)).
branred_r(x1, k, i) ==
    FMul(FMul(x1, FOfBits(toverp[k + i + 1])), FScale(F1, 576 - 24 * (k + i)))

\* One pass of __branred over x1, a part of x * 2^-600: <<b, bb, sum>>, the
\* fraction of x1 * 2/pi in two doubles and its integer part modulo 4.
branred_half(x1) ==
    LET f == FExpField(x1)
        k == IF f < 450 THEN 0 ELSE (f - 450) \div 24
    IN  IF Ready(x1)
        THEN branred_products(branred_r(x1, k, 0), branred_r(x1, k, 1),
                              branred_r(x1, k, 2), branred_r(x1, k, 3),
                              branred_r(x1, k, 4), branred_r(x1, k, 5))
        ELSE <<>>

\* The end of __branred: the fraction s + t of a quarter turn times pi/2,
\* and (int) sum & 3.
branred_scale(sum, s, t) ==
    LET D == branred_data
    IN  IF Ready(sum) /\ Ready(s) /\ Ready(t)
        THEN Bind(FMul(s, D.split), LAMBDA bs :
             Bind(FSub(bs, FSub(bs, s)), LAMBDA t1 :
             Bind(FSub(s, t1), LAMBDA t2 :
             Bind(FMul(s, D.hp0), LAMBDA b :
             Bind(FAdd(FAdd(FAdd(FSub(FMul(t1, D.mp1), b), FMul(t1, D.mp2)),
                            FMul(t2, D.mp1)),
                       FAdd(FAdd(FMul(t2, D.mp2), FMul(s, D.hp1)),
                            FMul(t, D.hp0))),
                  LAMBDA bb :
             Bind(FAdd(b, bb), LAMBDA a :
                  <<PyInt(sum) % 4, a, FAdd(FSub(b, a), bb)>>))))))
        ELSE <<>>

\* The fraction b + bb + bb1 + bb2 brought into [-1/2, 1/2].
branred_fold(sum, b, bb, bb1, bb2) ==
    LET D    == branred_data
        over == IF FGt(b, D.half) THEN 1 ELSE IF FLt(b, FNeg(D.half)) THEN -1 ELSE 0
    IN  IF Ready(sum) /\ Ready(b) /\ Ready(bb)
        THEN Bind(over, LAMBDA o :
             Bind(IF o = 1 THEN FSub(b, F1) ELSE IF o = -1 THEN FAdd(b, F1) ELSE b,
                  LAMBDA b1 :
             Bind(FAdd(b1, FAdd(FAdd(bb, bb1), bb2)), LAMBDA s :
                  branred_scale(IF o = 1 THEN FAdd(sum, F1)
                                ELSE IF o = -1 THEN FSub(sum, F1) ELSE sum,
                                s,
                                FAdd(FAdd(FSub(b1, s), bb), FAdd(bb1, bb2))))))
        ELSE <<>>

\* The two passes h1 and h2 put together.
branred_join(h1, h2) ==
    IF Ready(h1) /\ Ready(h2)
    THEN Bind(FAdd(h1[1], h2[1]), LAMBDA b :
              branred_fold(FAdd(h1[3], h2[3]), b,
                           IF FGt(FAbs(h1[1]), FAbs(h2[1]))
                           THEN FAdd(FSub(h1[1], b), h2[1])
                           ELSE FAdd(FSub(h2[1], b), h1[1]),
                           h1[2], h2[2]))
    ELSE <<>>

\* __branred(x): <<n, a, da>> with x = n pi/2 + a + da modulo 2 pi, for the
\* large |x|; x * 2^-600 is split in two parts of 26 bits.
branred(x) ==
    LET xs == FScale(x, -600)
    IN  IF Ready(x)
        THEN Bind(FMul(xs, branred_data.split), LAMBDA t :
             Bind(FSub(t, FSub(t, xs)), LAMBDA x1 :
             Bind([i \in 1..2 |-> branred_half(IF i = 1 THEN x1 ELSE FSub(xs, x1))],
                  LAMBDA h : branred_join(h[1], h[2]))))
        ELSE <<>>

\* math.cos(x): __cos by k, the high word of |x|, which 0x3e400000,
\* 0x3feb6000, 0x400368fd and 0x419921fb part: do_cos(x, 0), which is
\* do_sincos with n = 1; next to pi/2 do_sin(a, da) for a + da = pi/2 - |x|,
\* which is do_sincos with n = 0; and do_sincos with n + 1 for the n of
\* reduce_sincos or of __branred.
PyCos(x) ==
    LET D == sincos_data
    IN  Bind(BNToInt(BNShr(BNLow(FBits(x), 63), 32)), LAMBDA k :
             IF k < 1044381696 THEN F1
             ELSE cos_reduced(
                      IF k < 1072390144 THEN <<0, x, F0>>
                      ELSE IF k < 1073965309
                      THEN Bind(FSub(D.hp0, FAbs(x)), LAMBDA y :
                           Bind(FAdd(y, D.hp1), LAMBDA a :
                                <<-1, a, FAdd(FSub(y, a), D.hp1)>>))
                      ELSE IF k < 1100554747 THEN reduce_sincos(x)
                      ELSE branred(x)))

(***************************************************************************)
(* pow (e_pow.c): pow(x, y) = exp(y log(x)), the logarithm in two doubles. *)
(***************************************************************************)
\* The end of log_inline: k ln2 + log(c) + log1p(r) for r = z / c - 1.
log_poly(kd, r, logc, logctail) ==
    LET D == pow_log_data
    IN  IF Ready(kd) /\ Ready(r)
        THEN Bind(FFma(kd, D.ln2hi, logc), LAMBDA t1 :
             Bind(FAdd(t1, r), LAMBDA t2 :
             Bind(FMul(D.A0, r), LAMBDA ar :
             Bind(FMul(r, ar), LAMBDA ar2 :
             Bind(FAdd(t2, ar2), LAMBDA hi :
             Bind(FFma(FMul(r, ar2),
                       FFma(ar2, FFma(FFma(r, D.A6, D.A5), ar2,
                                      FFma(D.A4, r, D.A3)),
                            FFma(D.A2, r, D.A1)),
                       FAdd(FAdd(FAdd(FFma(kd, D.ln2lo, logctail),
                                      FAdd(FSub(t1, t2), r)),
                                 FFma(ar, r, FNeg(ar2))),
                            FAdd(FSub(t2, hi), ar2))),
                  LAMBDA lo :
             Bind(FAdd(hi, lo), LAMBDA y :
                  <<y, FAdd(FSub(hi, y), lo)>>)))))))
        ELSE <<>>

\* OFF = 0x3fe6955500000000, the word of the lower end of the interval z is
\* brought into.
log_OFF == <<0, 0, 21844, 32564, 3>>

\* log_inline(ix): <<hi, lo>>, log(x 2^-d) in two doubles, for a normal x.
\* x 2^-d = 2^k z with z in [0x1.69555p-1, 0x1.69555p0): tmp is the word ix
\* of x 2^-d less OFF, here with 2^63 added to stay a natural.
log_inline(x, d) ==
    IF Ready(x)
    THEN Bind(BNSub(BNAdd(FBits(x), BNShl(BN(2048 - d), 52)), log_OFF),
              LAMBDA tmp :
         Bind(BNToInt(BNLow(BNShr(tmp, 45), 7)), LAMBDA i :
         Bind(BNToInt(BNShr(tmp, 52)) - 2048, LAMBDA k :
              log_poly(FromInt(k),
                       FFma(FScale(x, -(k + d)), FOfBits(pow_log_tab[3 * i + 1]),
                            FNeg(F1)),
                       FOfBits(pow_log_tab[3 * i + 2]),
                       FOfBits(pow_log_tab[3 * i + 3])))))
    ELSE <<>>

\* exp_inline(ehi, elo) for l = <<hi, lo>>, ehi = y * hi and elo the rest of
\* y * (hi + lo).
pow_log(y, l) ==
    IF Ready(l)
    THEN Bind(FMul(y, l[1]), LAMBDA ehi :
              exp_inline(ehi, FFma(y, l[2], FFma(y, l[1], FNeg(ehi)))))
    ELSE FZero

\* pow(x, y) for a finite x > 0: a subnormal x is scaled by 2^52 and the
\* exponent of its word lowered by 52.
pow(x, y) ==
    LET d == IF FExpField(x) = 0 THEN 52 ELSE 0
    IN  pow_log(y, log_inline(FScale(x, d), d))

\* x ** n for n = 2, 3 (float_pow), infinite where ** raises OverflowError:
\* zero and one are answered without pow, a negative x is negated before
\* it and the result after it when n is odd.
FPow(x, n) ==
    IF Ready(x) /\ x.m = <<>> THEN FZero
    ELSE IF FAbs(x) = F1 THEN (IF x.s = 1 /\ n % 2 = 1 THEN FNeg(F1) ELSE F1)
    ELSE Bind(pow(FAbs(x), FromInt(n)), LAMBDA r :
              IF x.s = 1 /\ n % 2 = 1 THEN FNeg(r) ELSE r)

(***************************************************************************)
(* The slowdown curves (velocity in degrees per second at time t).         *)
(* CurveCall gives the exception or the value of one call.                 *)
(***************************************************************************)
\* -decay_rate * t, the argument of math.exp in the exponential curves.
ExpArg(t, animation_length, decay_factor) ==
    FMul(FNeg(FDiv(decay_factor, animation_length)), t)

\* initial_speed * factor, the result of a curve; where math.exp or ** raised
\* OverflowError over an infinite factor, FInf stands for the exception.
Speed(initial_speed, factor) ==
    IF Ready(factor) /\ FIsHuge(factor) THEN FInf
    ELSE FMul(initial_speed, factor)

exponential_slowdown(t, animation_length, initial_speed, decay_factor) ==
    Speed(initial_speed, PyExp(ExpArg(t, animation_length, decay_factor)))

\* Lines 180-185 without the test of line 182.
exponential_with_min_Unclamped(t, animation_length, initial_speed, decay_factor) ==
    Speed(initial_speed, PyExp(ExpArg(t, animation_length, decay_factor)))

\* Lines 180-185: past 0.7 of the length the speed is what it was there.
\* Line 181 is evaluated at every t.
exponential_slowdown_with_min(t, animation_length, initial_speed, decay_factor) ==
    LET threshold == FMul(FromRatio(7, 10), animation_length)
    IN  Bind(Speed(initial_speed,
                   PyExp(ExpArg(t, animation_length, decay_factor))),
             LAMBDA res :
             IF res = FInf \/ ~FGt(t, threshold) THEN res
             ELSE Speed(initial_speed,
                        PyExp(ExpArg(threshold, animation_length,
                                     decay_factor))))

linear_slowdown(t, animation_length, initial_speed) ==
    LET slowdown_rate == FDiv(initial_speed, animation_length)
        speed         == FSub(initial_speed, FMul(slowdown_rate, t))
    IN  PyMax(speed, F0)

quadratic_slowdown(t, animation_length, initial_speed) ==
    LET t_norm == FDiv(t, animation_length)
        factor == FPow(FSub(F1, t_norm), 2)
    IN  Speed(initial_speed, factor)

cosine_slowdown(t, animation_length, initial_speed) ==
    LET phase  == FMul(PyMin(FDiv(t, animation_length), F1), FPi)
        factor == FDiv(FAdd(F1, PyCos(phase)), FromInt(2))
    IN  FMul(initial_speed, factor)

smooth_stop_slowdown(t, animation_length, initial_speed) ==
    LET t_norm == FDiv(t, animation_length)
        factor == FPow(FSub(F1, t_norm), 3)
    IN  Speed(initial_speed, factor)

\* main's dispatch on args.curve: the lambda handed to the planner.
slowdown_curve(kind, t, animation_length, initial_speed, decay_factor) ==
    CASE kind = "exponential" ->
             exponential_slowdown(t, animation_length, initial_speed,
                                  decay_factor)
      [] kind = "linear"      ->
             linear_slowdown(t, animation_length, initial_speed)
      [] kind = "quadratic"   ->
             quadratic_slowdown(t, animation_length, initial_speed)
      [] kind = "cosine"      ->
             cosine_slowdown(t, animation_length, initial_speed)
      [] kind = "smooth_stop" ->
             smooth_stop_slowdown(t, animation_length, initial_speed)

\* What the planner's slowdown_curve argument returns: main's lambda, or
\* one around exponential_slowdown_with_min, which main does not offer.
CurveValue(function, t, length, speed, decay) ==
    IF function = "exponential_with_min"
    THEN exponential_slowdown_with_min(t, length, speed, decay)
    ELSE slowdown_curve(function, t, length, speed, decay)

\* One call of the planner's slowdown_curve argument: <<the exception it
\* raises or "none", the velocity it returns>>.  Every curve divides by
\* animation_length first, and math.exp and ** raise on a result out of
\* range.
CurveCall(kind, t, animation_length, initial_speed, decay_factor) ==
    IF FIsZero(animation_length) THEN <<"ZeroDivisionError", FInf>>
    ELSE Bind(CurveValue(kind, t, animation_length, initial_speed,
                         decay_factor),
              LAMBDA v : <<IF v = FInf THEN "OverflowError" ELSE "none", v>>)

\* The exception a call of the curve raises, or "none"; the speed has no
\* part in it.
CurveRaises(kind, t, animation_length, decay_factor) ==
    CurveCall(kind, t, animation_length, F1, decay_factor)[1]

(***************************************************************************)
(* Bounds and inputs of the model.  Decimal command-line literals are      *)
(* pairs <<numerator, denominator>>; argparse's type=float turns each into *)
(* the nearest double.                                                     *)
(***************************************************************************)
\* Cap on the samples one call records: the loop of a call with
\* frame_duration <= 0 never ends and is cut here.
MaxSamples == 12
\* Cap on the hold-still frames one call appends; with one sample before
\* them the last is the twentieth frame of the call.
MaxHold == 19

\* The choices of --curve.
Curves    == {"exponential", "linear", "quadratic", "cosine", "smooth_stop"}
Speeds    == {<<100, 1>>, <<360, 1>>, <<720, 1>>}
Lengths   == {<<-1, 1>>, <<0, 1>>, <<1, 1000>>, <<3, 10>>, <<7, 10>>, <<1, 1>>}
Durations == {<<-1, 2>>, <<0, 1>>, <<5, 10000>>, <<1, 1000>>, <<1, 10>>,
              <<1, 4>>, <<1, 2>>, <<1, 1>>}
Holds     == {<<-1, 1>>, <<0, 1>>, <<3, 10>>, <<1, 2>>}
\* The six curve functions of lines 148-261.
CurveFunctions == Curves \cup {"exponential_with_min"}
\* --decay-factor is left at its default.
DecayFactors == {<<3, 1>>}

\* The curves that call math.exp or math.cos are run on fewer inputs.
Transcendental == {"exponential", "cosine"}
FewSpeeds      == {<<100, 1>>, <<720, 1>>}
FewLengths     == {<<0, 1>>, <<1, 1000>>, <<3, 10>>, <<1, 1>>}
FewDurations   == {<<-1, 2>>, <<1, 10>>, <<1, 2>>}
FewHolds       == {<<0, 1>>, <<3, 10>>}

\* Single command lines beside the grid: two thousand million samples
\* asked for, a rotation that accumulates to exactly 900 degrees, twenty
\* frames of a curve that grows past the doubles after its length and of
\* one that does not, and every curve at an initial speed of 0.
EdgeCases ==
    {<<"linear", <<720, 1>>, <<1, 1>>, <<1, 2000000000>>, <<0, 1>>, <<3, 1>>>>,
     <<"linear", <<1200, 1>>, <<1, 1>>, <<1, 2>>, <<0, 1>>, <<3, 1>>>>,
     <<"exponential", <<100, 1>>, <<1, 1000>>, <<1, 1>>, <<19, 1>>,
       <<-3, 1>>>>,
     <<"linear", <<720, 1>>, <<1, 1000>>, <<1, 1>>, <<19, 1>>, <<3, 1>>>>}
    \cup (Curves \X {<<0, 1>>} \X {<<1, 1>>} \X {<<1, 2>>}
              \X {<<0, 1>>, <<1, 2>>} \X DecayFactors)

\* Values of --curve that are not among the choices of line 293: the
\* floored exponential curve under two names, and a curve that does not
\* exist.
OtherCurves == {"exponential_floored", "exponential_slowdown_with_min",
                "sigmoid"}

\* The command lines of the model: <<curve, initial speed, length,
\* duration, hold-still, decay factor>>.
CommandLines ==
    ((Curves \ Transcendental) \X Speeds \X Lengths \X Durations \X Holds
         \X DecayFactors)
    \cup (Transcendental \X FewSpeeds \X FewLengths \X FewDurations
              \X FewHolds \X DecayFactors)
    \cup EdgeCases
    \cup (OtherCurves \X {<<720, 1>>} \X {<<1, 1>>} \X {<<1, 2>>}
              \X {<<0, 1>>} \X DecayFactors)

\* The calls of create_rotating_gif_spline with a lambda around
\* exponential_slowdown_with_min: <<function, initial speed, length,
\* duration, hold-still, decay factor>>.
DirectCalls ==
    {"exponential_with_min"} \X FewSpeeds \X FewLengths \X FewDurations
        \X FewHolds \X DecayFactors

\* float("num/den")
ParseFloat(lit) == FromRatio(lit[1], lit[2])

\* A threshold of half a turn in place of line 62's three quarters.
F270_HalfTurn == FromInt(180)

\* The threshold of line 62.
F270  == FromInt(270)
F360  == FromInt(360)
\* A factor of a hundred in place of line 129's thousand.
F1000_Hundred == FromInt(100)

\* The factor of line 129.
F1000 == FromInt(1000)

(***************************************************************************)
(* State of one call of create_rotating_gif_spline.                        *)
(***************************************************************************)
VARIABLES
    pc,               \* position in main / create_rotating_gif_spline
    curve,            \* args.curve
    initial_speed,    \* args.initial_speed
    decay_factor,     \* args.decay_factor
    animation_length, \* args.length
    frame_duration,   \* args.duration
    hold_still,       \* args.hold_still
    current_time,
    total_angle,
    times,
    angles,
    warned,           \* the "less than 270" note was printed
    num_hold_frames,  \* int(hold_still / frame_duration), -1 before line 85
    hold_done,        \* iterations of the hold-still loop so far
    num_frames,       \* len(angles) at line 91, -1 before
    total_duration,   \* animation_length + hold_still, line 93
    duration_ms,      \* int(frame_duration * 1000), -1 before line 129
    outcome,          \* how the call ended
    first_plan,       \* <<angles, duration_ms>> of an earlier call with the
                      \* same arguments, <<>> if there was none: kept by
                      \* the observer, no name of the program
    curve_call,       \* <<function, t, animation_length, initial_speed,
                      \* decay_factor>> of a direct call of a curve
                      \* function, <<>> if there was none
    speed_returned,   \* what that call returned
    gen_pc,           \* position in create_rotating_gif / rotate_image
    generator,        \* which of the two constant-step generators runs
    rotation_step,    \* rotation_step / rotation_degrees
    step_duration,    \* frame_duration of create_rotating_gif
    num_rotations,    \* 360 // rotation_step, -1 before it is computed
    frames,           \* the rotation_angle of each frame made so far
    gif_duration_ms,  \* int(frame_duration * 1000) of create_rotating_gif,
                      \* -1 before it is computed
    gen_outcome       \* how the generator ended

vars == <<pc, curve, initial_speed, decay_factor, animation_length, frame_duration,
          hold_still, current_time, total_angle, times, angles, warned,
          num_hold_frames, hold_done, num_frames, total_duration,
          duration_ms, outcome, first_plan, curve_call,
          speed_returned, gen_pc, generator, rotation_step, step_duration,
          num_rotations, frames, gif_duration_ms, gen_outcome>>

\* The state of a constant-step generator.
stepping == <<gen_pc, generator, rotation_step, step_duration, num_rotations,
              frames, gif_duration_ms, gen_outcome>>

\* What no step of a call touches.
aside == <<first_plan, curve_call, speed_returned, stepping>>

inputs == <<curve, initial_speed, decay_factor, animation_length,
            frame_duration, hold_still>>

Init ==
    /\ pc = "main"
    /\ curve = "linear"
    /\ initial_speed = F0
    /\ decay_factor = F0
    /\ animation_length = F0
    /\ frame_duration = F0
    /\ hold_still = F0
    /\ current_time = F0
    /\ total_angle = F0
    /\ times = <<>>
    /\ angles = <<>>
    /\ warned = FALSE
    /\ num_hold_frames = -1
    /\ hold_done = 0
    /\ num_frames = -1
    /\ total_duration = F0
    /\ duration_ms = -1
    /\ outcome = "running"
    /\ first_plan = <<>>
    /\ curve_call = <<>>
    /\ speed_returned = F0
    /\ gen_pc = "main"
    /\ generator = "create_rotating_gif"
    /\ rotation_step = 30
    /\ step_duration = F0
    /\ num_rotations = -1
    /\ frames = <<>>
    /\ gif_duration_ms = -1
    /\ gen_outcome = "running"

\* main (lines 302-316): parse the arguments, select the curve, call.
\* parse_args ends the program with SystemExit on a --curve that is not one
\* of the choices of line 293.
Main ==
    /\ pc = "main"
    /\ \E args \in CommandLines :
          /\ curve' = args[1]
          /\ initial_speed' = ParseFloat(args[2])
          /\ animation_length' = ParseFloat(args[3])
          /\ frame_duration' = ParseFloat(args[4])
          /\ hold_still' = ParseFloat(args[5])
          /\ decay_factor' = ParseFloat(args[6])
          /\ IF args[1] \in Curves
             THEN /\ pc' = "open"
                  /\ UNCHANGED outcome
             ELSE /\ pc' = "raised"
                  /\ outcome' = "SystemExit"
    /\ UNCHANGED <<current_time, total_angle, times, angles, warned,
                   num_hold_frames, hold_done, num_frames, total_duration,
                   duration_ms>>
    /\ UNCHANGED aside

\* Line 8 called by an importer of the file, with the one curve function
\* that main does not offer.
Call ==
    /\ pc = "main"
    /\ \E args \in DirectCalls :
          /\ curve' = args[1]
          /\ initial_speed' = ParseFloat(args[2])
          /\ animation_length' = ParseFloat(args[3])
          /\ frame_duration' = ParseFloat(args[4])
          /\ hold_still' = ParseFloat(args[5])
          /\ decay_factor' = ParseFloat(args[6])
    /\ pc' = "open"
    /\ UNCHANGED <<current_time, total_angle, times, angles, warned,
                   num_hold_frames, hold_done, num_frames, total_duration,
                   duration_ms, outcome>>
    /\ UNCHANGED aside

\* Lines 23-40: the input file is missing or unreadable (return), or the
\* image loads and the accumulators are initialised.
OpenImage ==
    /\ pc = "open"
    /\ \E found \in BOOLEAN, loads \in BOOLEAN :
          IF ~found
          THEN /\ pc' = "returned"
               /\ outcome' = "file not found"
          ELSE IF ~loads
          THEN /\ pc' = "returned"
               /\ outcome' = "error loading image"
          ELSE /\ pc' = "integrate"
               /\ outcome' = outcome
    /\ current_time' = F0
    /\ total_angle' = F0
    /\ times' = <<>>
    /\ angles' = <<>>
    /\ UNCHANGED <<inputs, warned, num_hold_frames, hold_done, num_frames,
                   total_duration, duration_ms>>
    /\ UNCHANGED aside

\* Lines 43-55 with the angle counted clockwise: line 54 subtracts.
Integrate_Clockwise ==
    /\ pc = "integrate"
    /\ FLe(current_time, animation_length)
    /\ Len(times) < MaxSamples
    /\ times' = Append(times, current_time)
    /\ angles' = Append(angles, total_angle)
    /\ Bind(CurveCall(curve, current_time, animation_length, initial_speed,
                      decay_factor),
            LAMBDA call :
            IF call[1] # "none"
            THEN /\ pc' = "raised"
                 /\ outcome' = call[1]
                 /\ UNCHANGED <<total_angle, current_time>>
            ELSE LET velocity    == call[2]
                     angle_delta == FMul(velocity, frame_duration)
                 IN  /\ total_angle' = FSub(total_angle, angle_delta)
                     /\ current_time' = FAdd(current_time, frame_duration)
                     /\ UNCHANGED <<pc, outcome>>)
    /\ UNCHANGED <<inputs, warned, num_hold_frames, hold_done, num_frames,
                   total_duration, duration_ms>>
    /\ UNCHANGED aside

\* Lines 43-55 with line 55 advancing the time by what the frame took on
\* the clock in place of frame_duration: one frame_duration, or two when
\* the frame was late.
Integrate_WallClock ==
    /\ pc = "integrate"
    /\ FLe(current_time, animation_length)
    /\ Len(times) < MaxSamples
    /\ times' = Append(times, current_time)
    /\ angles' = Append(angles, total_angle)
    /\ Bind(CurveCall(curve, current_time, animation_length, initial_speed,
                      decay_factor),
            LAMBDA call :
            IF call[1] # "none"
            THEN /\ pc' = "raised"
                 /\ outcome' = call[1]
                 /\ UNCHANGED <<total_angle, current_time>>
            ELSE LET velocity    == call[2]
                     angle_delta == FMul(velocity, frame_duration)
                 IN  /\ total_angle' = FAdd(total_angle, angle_delta)
                     /\ \E late \in BOOLEAN :
                           current_time' =
                               FAdd(current_time,
                                    IF late
                                    THEN FAdd(frame_duration, frame_duration)
                                    ELSE frame_duration)
                     /\ UNCHANGED <<pc, outcome>>)
    /\ UNCHANGED <<inputs, warned, num_hold_frames, hold_done, num_frames,
                   total_duration, duration_ms>>
    /\ UNCHANGED aside

\* Lines 43-55 with line 45 after line 52: the angle is recorded after the
\* increment.
Integrate_RecordAfter ==
    /\ pc = "integrate"
    /\ FLe(current_time, animation_length)
    /\ Len(times) < MaxSamples
    /\ times' = Append(times, current_time)
    /\ Bind(CurveCall(curve, current_time, animation_length, initial_speed,
                      decay_factor),
            LAMBDA call :
            IF call[1] # "none"
            THEN /\ pc' = "raised"
                 /\ outcome' = call[1]
                 /\ UNCHANGED <<total_angle, current_time>>
            ELSE LET velocity    == call[2]
                     angle_delta == FMul(velocity, frame_duration)
                 IN  /\ total_angle' = FAdd(total_angle, angle_delta)
                     /\ current_time' = FAdd(current_time, frame_duration)
                     /\ UNCHANGED <<pc, outcome>>)
    /\ angles' = Append(angles, total_angle')
    /\ UNCHANGED <<inputs, warned, num_hold_frames, hold_done, num_frames,
                   total_duration, duration_ms>>
    /\ UNCHANGED aside

\* One iteration of the sampling loop, lines 43-55.
Integrate ==
    /\ pc = "integrate"
    /\ FLe(current_time, animation_length)
    /\ Len(times) < MaxSamples
    /\ times' = Append(times, current_time)
    /\ angles' = Append(angles, total_angle)
    /\ Bind(CurveCall(curve, current_time, animation_length, initial_speed,
                      decay_factor),
            LAMBDA call :
            IF call[1] # "none"
            THEN /\ pc' = "raised"
                 /\ outcome' = call[1]
                 /\ UNCHANGED <<total_angle, current_time>>
            ELSE LET velocity    == call[2]
                     angle_delta == FMul(velocity, frame_duration)
                 IN  /\ total_angle' = FAdd(total_angle, angle_delta)
                     /\ current_time' = FAdd(current_time, frame_duration)
                     /\ UNCHANGED <<pc, outcome>>)
    /\ UNCHANGED <<inputs, warned, num_hold_frames, hold_done, num_frames,
                   total_duration, duration_ms>>
    /\ UNCHANGED aside

\* The loop condition of line 43 fails.
EndIntegrate ==
    /\ pc = "integrate"
    /\ ~FLe(current_time, animation_length)
    /\ pc' = "normalize"
    /\ UNCHANGED <<inputs, current_time, total_angle, times, angles, warned,
                   num_hold_frames, hold_done, num_frames, total_duration,
                   duration_ms, outcome>>
    /\ UNCHANGED aside

\* angles = [angle % 360.0 for angle in angles]
Wrapped(as) == [i \in 1..Len(as) |-> PyMod(as[i], 360)]

\* Lines 70-71.
TargetAngle(total) ==
    LET num_full_rotations == PyRound(FDiv(total, F360))
    IN  FMul(FromInt(num_full_rotations), F360)

\* Line 73.
ScaleFactor(total) == FDiv(TargetAngle(total), total)

\* Line 74 left out: the angles stay as they were recorded.
Scaled_Unscaled(as, scale_factor) == as

\* Line 74.
Scaled(as, scale_factor) ==
    IF Ready(scale_factor)
    THEN [i \in 1..Len(as) |-> FMul(as[i], scale_factor)] ELSE as

\* Lines 62-67 without the note of lines 63-64.
KeepPartial_Silent ==
    /\ pc = "normalize"
    /\ FLt(total_angle, F270)
    /\ warned' = warned
    /\ angles' = Wrapped(angles)
    /\ pc' = "close"
    /\ UNCHANGED <<inputs, current_time, total_angle, times,
                   num_hold_frames, hold_done, num_frames, total_duration,
                   duration_ms, outcome>>
    /\ UNCHANGED aside

\* Lines 62-67: less than 270 degrees, note it and only wrap the angles.
KeepPartial ==
    /\ pc = "normalize"
    /\ FLt(total_angle, F270)
    /\ warned' = TRUE
    /\ angles' = Wrapped(angles)
    /\ pc' = "close"
    /\ UNCHANGED <<inputs, current_time, total_angle, times,
                   num_hold_frames, hold_done, num_frames, total_duration,
                   duration_ms, outcome>>
    /\ UNCHANGED aside

\* Lines 68-75: scale to the nearest multiple of 360.
Rescale ==
    /\ pc = "normalize"
    /\ ~FLt(total_angle, F270)
    /\ angles' = Scaled(angles, ScaleFactor(total_angle))
    /\ total_angle' = TargetAngle(total_angle)
    /\ pc' = "wrap"
    /\ UNCHANGED <<inputs, current_time, times, warned,
                   num_hold_frames, hold_done, num_frames, total_duration,
                   duration_ms, outcome>>
    /\ UNCHANGED aside

\* Line 78 without the modulo: the scaled angles are passed on as they are.
Wrap_NoModulo ==
    /\ pc = "wrap"
    /\ angles' = angles
    /\ pc' = "close"
    /\ UNCHANGED <<inputs, current_time, total_angle, times, warned,
                   num_hold_frames, hold_done, num_frames, total_duration,
                   duration_ms, outcome>>
    /\ UNCHANGED aside

\* Line 78.
Wrap ==
    /\ pc = "wrap"
    /\ angles' = Wrapped(angles)
    /\ pc' = "close"
    /\ UNCHANGED <<inputs, current_time, total_angle, times, warned,
                   num_hold_frames, hold_done, num_frames, total_duration,
                   duration_ms, outcome>>
    /\ UNCHANGED aside

\* Line 81 without the assignment: the last angle keeps what the modulo
\* produced.
CloseLoop_Unforced ==
    /\ pc = "close"
    /\ IF angles = <<>>
       THEN /\ pc' = "raised"
            /\ outcome' = "IndexError"
       ELSE /\ pc' = "hold"
            /\ UNCHANGED outcome
    /\ UNCHANGED <<inputs, current_time, total_angle, times, angles, warned,
                   num_hold_frames, hold_done, num_frames, total_duration,
                   duration_ms>>
    /\ UNCHANGED aside

\* Line 81: angles[-1] = 0.0, an IndexError on an empty list.
CloseLoop ==
    /\ pc = "close"
    /\ IF angles = <<>>
       THEN /\ pc' = "raised"
            /\ outcome' = "IndexError"
            /\ UNCHANGED angles
       ELSE /\ angles' = [angles EXCEPT ![Len(angles)] = F0]
            /\ pc' = "hold"
            /\ UNCHANGED outcome
    /\ UNCHANGED <<inputs, current_time, total_angle, times, warned,
                   num_hold_frames, hold_done, num_frames, total_duration,
                   duration_ms>>
    /\ UNCHANGED aside

\* Lines 84-85: the number of hold-still frames.
BeginHold ==
    /\ pc = "hold"
    /\ num_hold_frames = -1
    /\ FGt(hold_still, F0)
    /\ IF FIsZero(frame_duration)
       THEN /\ pc' = "raised"
            /\ outcome' = "ZeroDivisionError"
            /\ UNCHANGED num_hold_frames
       ELSE /\ num_hold_frames' = PyInt(FDiv(hold_still, frame_duration))
            /\ UNCHANGED <<pc, outcome>>
    /\ UNCHANGED <<inputs, current_time, total_angle, times, angles, warned,
                   hold_done, num_frames, total_duration, duration_ms>>
    /\ UNCHANGED aside

\* Lines 86-89 with line 88 after line 89: the time is recorded after it
\* has advanced.
HoldFrame_TimeAfter ==
    /\ pc = "hold"
    /\ num_hold_frames # -1
    /\ hold_done < num_hold_frames
    /\ hold_done < MaxHold
    /\ angles' = Append(angles, F0)
    /\ current_time' = FAdd(current_time, frame_duration)
    /\ times' = Append(times, current_time')
    /\ hold_done' = hold_done + 1
    /\ UNCHANGED <<inputs, pc, total_angle, warned, num_hold_frames,
                   num_frames, total_duration, duration_ms, outcome>>
    /\ UNCHANGED aside

\* One iteration of the loop of lines 86-89.
HoldFrame ==
    /\ pc = "hold"
    /\ num_hold_frames # -1
    /\ hold_done < num_hold_frames
    /\ hold_done < MaxHold
    /\ angles' = Append(angles, F0)
    /\ times' = Append(times, current_time)
    /\ current_time' = FAdd(current_time, frame_duration)
    /\ hold_done' = hold_done + 1
    /\ UNCHANGED <<inputs, pc, total_angle, warned, num_hold_frames,
                   num_frames, total_duration, duration_ms, outcome>>
    /\ UNCHANGED aside

\* The exceptions of the imaging library that end a loop over the frames:
\* Image.new (line 115) without memory for the canvas, img.rotate (line 118)
\* or canvas.paste (line 121) on an image that cannot be read.
RenderFailures == {"MemoryError", "OSError"}

\* Line 124: the speed is reported on the first frame and on every
\* twentieth, frames counted from 1.
Reported(i) == i = 1 \/ i % 20 = 0

\* Lines 124-125 over the loop of line 113: the exception of the first
\* reported frame whose call of the curve raises, "none" when none does.
RenderRaises ==
    Bind([i \in {k \in 1..Len(angles) : Reported(k)} |->
              CurveCall(curve, times[i], animation_length, initial_speed,
                        decay_factor)[1]],
         LAMBDA calls :
         LET raising == {i \in DOMAIN calls : calls[i] # "none"}
         IN  IF raising = {} THEN "none" ELSE calls[SetMin(raising)])

\* Lines 91-143: the plan is complete; it is reported, rendered and saved
\* with the frame duration in milliseconds.  The loop that renders stands
\* in no try block: an exception of the imaging library or of the curve
\* leaves the call before line 129.  A failure of the encoder is reported
\* and the call returns.
Finish ==
    /\ pc = "hold"
    /\ \/ ~FGt(hold_still, F0)
       \/ num_hold_frames # -1 /\ hold_done >= num_hold_frames
    /\ num_frames' = Len(angles)
    /\ total_duration' = FAdd(animation_length, hold_still)
    /\ Bind(RenderRaises, LAMBDA raised :
            \E ending \in RenderFailures \cup {raised} :
               IF ending = "none"
               THEN /\ duration_ms' = PyInt(FMul(frame_duration, F1000))
                    /\ pc' = "done"
                    /\ \E saves \in BOOLEAN :
                          outcome' = IF saves THEN "saved"
                                     ELSE "error saving GIF"
               ELSE /\ pc' = "raised"
                    /\ outcome' = ending
                    /\ UNCHANGED duration_ms)
    /\ UNCHANGED <<inputs, current_time, total_angle, times, angles, warned,
                   num_hold_frames, hold_done>>
    /\ UNCHANGED aside

Next ==
    \/ Main
    \/ Call
    \/ OpenImage
    \/ Integrate
    \/ EndIntegrate
    \/ KeepPartial
    \/ Rescale
    \/ Wrap
    \/ CloseLoop
    \/ BeginHold
    \/ HoldFrame
    \/ Finish

Spec == Init /\ [][Next]_vars

(***************************************************************************)
(* Two calls with the same arguments.                                      *)
(***************************************************************************)
\* Line 8 entered a second time with the arguments of a call that has
\* returned its plan (main itself calls once, at line 316).  The frame of
\* the first call is gone: every local name of the function is unbound, as
\* it was before the first call, and the module holds no other state.  The
\* plan of the first call is kept for comparison.
Rerun ==
    /\ pc = "done"
    /\ first_plan = <<>>
    /\ first_plan' = <<angles, duration_ms>>
    /\ pc' = "open"
    /\ current_time' = F0
    /\ total_angle' = F0
    /\ times' = <<>>
    /\ angles' = <<>>
    /\ warned' = FALSE
    /\ num_hold_frames' = -1
    /\ hold_done' = 0
    /\ num_frames' = -1
    /\ total_duration' = F0
    /\ duration_ms' = -1
    /\ outcome' = "running"
    /\ UNCHANGED <<inputs, curve_call, speed_returned, stepping>>

NextTwice ==
    \/ Next
    \/ Rerun

SpecTwice == Init /\ [][NextTwice]_vars

(***************************************************************************)
(* A curve function called on its own.                                     *)
(***************************************************************************)
\* The times, lengths and speeds the functions are called with: t >= 0,
\* before, at and after the end of the animation.
EvalTimes   == {<<0, 1>>, <<1, 4>>, <<1, 2>>, <<7, 10>>, <<3, 4>>, <<1, 1>>,
                <<3, 2>>, <<2, 1>>, <<3, 1>>, <<41, 10>>}
EvalLengths == {<<1, 2>>, <<1, 1>>, <<2, 1>>, <<41, 10>>}
EvalSpeeds  == {<<100, 1>>, <<720, 1>>}

\* One call of a curve function.
Evaluate ==
    /\ curve_call = <<>>
    /\ \E function \in CurveFunctions, t \in EvalTimes, l \in EvalLengths,
          v \in EvalSpeeds, d \in DecayFactors :
          /\ curve_call' = <<function, ParseFloat(t), ParseFloat(l),
                             ParseFloat(v), ParseFloat(d)>>
          /\ speed_returned' = CurveValue(function, ParseFloat(t),
                                          ParseFloat(l), ParseFloat(v),
                                          ParseFloat(d))
    /\ UNCHANGED <<pc, inputs, current_time, total_angle, times, angles,
                   warned, num_hold_frames, hold_done, num_frames,
                   total_duration, duration_ms, outcome, first_plan,
                   stepping>>

NextCurves == Evaluate

SpecCurves == Init /\ [][NextCurves]_vars

(***************************************************************************)
(* The constant-step generators: create_rotating_gif.py, rotate_logo.py.   *)
(***************************************************************************)
Generators == {"create_rotating_gif", "rotate_image"}

\* --step / --degrees (type=int): divisors of 360 and others, up to and
\* beyond a full turn, zero and a negative step.
RotationSteps == {-30, 0, 1, 7, 24, 30, 45, 50, 90, 100, 120, 180, 200, 360,
                  361, 400, 720}

\* --duration of create_rotating_gif.
StepDurations == {<<1, 10>>, <<5, 10000>>}

\* The state of the spline planner, which the generators do not touch.
planning == <<pc, inputs, current_time, total_angle, times, angles, warned,
              num_hold_frames, hold_done, num_frames, total_duration,
              duration_ms, outcome, first_plan, curve_call, speed_returned>>

\* a // b of Python for a >= 0: the quotient rounded up, not down.
PyFloorDiv_Ceiling(a, b) ==
    IF b > 0 THEN (a + b - 1) \div b ELSE -(a \div (-b))

\* a // b of Python for a >= 0 and b # 0: the floor of the quotient.
PyFloorDiv(a, b) ==
    IF b > 0 THEN a \div b ELSE -((a + (-b) - 1) \div (-b))

\* main and lines 16-28 of create_rotating_gif.py, lines 15-27 of
\* rotate_logo.py: the file is missing or unreadable (return), or the
\* number of frames of a full turn is computed.
StartGenerator ==
    /\ gen_pc = "main"
    /\ \E g \in Generators, step \in RotationSteps, d \in StepDurations,
          found \in BOOLEAN, loads \in BOOLEAN :
          /\ generator' = g
          /\ rotation_step' = step
          /\ step_duration' = IF g = "create_rotating_gif"
                               THEN ParseFloat(d) ELSE F0
          /\ IF ~found
             THEN /\ gen_pc' = "returned"
                  /\ gen_outcome' = "file not found"
                  /\ UNCHANGED num_rotations
             ELSE IF ~loads
             THEN /\ gen_pc' = "returned"
                  /\ gen_outcome' = "error loading image"
                  /\ UNCHANGED num_rotations
             ELSE IF step = 0
             THEN /\ gen_pc' = "raised"
                  /\ gen_outcome' = "ZeroDivisionError"
                  /\ UNCHANGED num_rotations
             ELSE /\ gen_pc' = "rotate"
                  /\ num_rotations' = PyFloorDiv(360, step)
                  /\ UNCHANGED gen_outcome
    /\ UNCHANGED <<frames, gif_duration_ms>>
    /\ UNCHANGED planning

\* One iteration of the loop of lines 44-55 of create_rotating_gif.py,
\* lines 37-49 of rotate_logo.py.  The loop stands in no try block: an
\* exception of img.rotate, of Image.new or of rotate_logo.py's save of the
\* frame (line 48) leaves the generator with the frames made before it.
RotateFrame ==
    /\ gen_pc = "rotate"
    /\ Len(frames) < num_rotations
    /\ \E failure \in RenderFailures \cup {"none"} :
          IF failure = "none"
          THEN /\ frames' = Append(frames, Len(frames) * rotation_step)
               /\ UNCHANGED <<gen_pc, gen_outcome>>
          ELSE /\ gen_pc' = "raised"
               /\ gen_outcome' = failure
               /\ UNCHANGED frames
    /\ UNCHANGED <<generator, rotation_step, step_duration, num_rotations,
                   gif_duration_ms>>
    /\ UNCHANGED planning

\* Lines 58-72 of create_rotating_gif.py: the frames are saved with the
\* frame duration in milliseconds; frames[0] of an empty list raises
\* inside the try block, as a failure of the encoder does.  Line 51 of
\* rotate_logo.py: the count is reported.
FinishGenerator ==
    /\ gen_pc = "rotate"
    /\ Len(frames) >= num_rotations
    /\ gen_pc' = "done"
    /\ IF generator = "create_rotating_gif"
       THEN /\ gif_duration_ms' = PyInt(FMul(step_duration, F1000))
            /\ \E encoded \in BOOLEAN :
                  gen_outcome' = IF frames # <<>> /\ encoded
                                 THEN "saved" ELSE "error saving GIF"
       ELSE /\ gen_outcome' = "generated"
            /\ UNCHANGED gif_duration_ms
    /\ UNCHANGED <<generator, rotation_step, step_duration, num_rotations,
                   frames>>
    /\ UNCHANGED planning

NextSteps == StartGenerator \/ RotateFrame \/ FinishGenerator

SpecSteps == Init /\ [][NextSteps]_vars

(***************************************************************************)
(* Properties of the frame plan.                                           *)
(***************************************************************************)

\* The parameters the plan is specified for.
ValidInput ==
    /\ FGt(animation_length, F0)
    /\ FGt(frame_duration, F0)
    /\ FGe(hold_still, F0)

\* floor(a): the largest integer that is at most a.
Floor(a) ==
    IF Ready(a) /\ a.s = 1 /\ a.e < 0 THEN -FTruncMag(a) - 1
    ELSE PyInt(a)

\* The frames that came from the sampling loop, without the hold-still ones.
IntegrationFrames == Len(angles) - hold_done

\* The positions after the sampling loop has ended normally.
AfterSampling == {"normalize", "wrap", "close", "hold", "done"}

\* The positions after the branch of line 62 has been taken.
AfterNormalize == {"wrap", "close", "hold", "done"}

\* C1: for valid input the last frame of the plan has angle exactly 0, in
\* both branches, with or without hold-still frames: from the forcing of the
\* last sample on, through the hold-still loop, to the finished plan.
C1_LastFrameZero ==
    (pc \in {"hold", "done"} /\ ValidInput)
        => /\ angles # <<>>
           /\ angles[Len(angles)] = F0
           /\ angles[IntegrationFrames] = F0

\* C1: a finished plan of the rescale branch with hold-still frames whose
\* frames are not all at 0.
C1_Witness ==
    /\ pc = "done"
    /\ ValidInput
    /\ ~warned
    /\ hold_done > 0
    /\ \E i \in 1..Len(angles) : angles[i] # F0
    /\ angles[Len(angles)] = F0

\* C2: after rescaling, before the modulo, the cumulative angle of the last
\* integration sample is the target round(total_angle / 360) * 360 (which
\* total_angle holds from line 75 on), an exact multiple of 360.
C2_EndpointOnTarget ==
    (pc = "wrap" /\ angles # <<>>)
        => /\ FCmp(angles[Len(angles)], total_angle) = 0
           /\ FIsZero(PyMod(angles[Len(angles)], 360))

\* C3: for animation_length > 0 and frame_duration > 0 the sampling loop
\* produces floor(animation_length / frame_duration) + 1 frames.
C3_SampleCount ==
    (pc \in AfterSampling /\ FGt(animation_length, F0)
                          /\ FGt(frame_duration, F0))
        => IntegrationFrames
              = Floor(FDiv(animation_length, frame_duration)) + 1

\* C4: for hold_still >= 0 and frame_duration > 0 the finished plan ends
\* with floor(hold_still / frame_duration) appended frames at angle 0, none
\* when hold_still = 0, and 3 for hold_still = 0.3 with
\* frame_duration = 0.1.
C4_HoldFrameCount ==
    (pc = "done" /\ FGe(hold_still, F0) /\ FGt(frame_duration, F0))
        => /\ hold_done = Floor(FDiv(hold_still, frame_duration))
           /\ \A i \in (IntegrationFrames + 1)..Len(angles) : angles[i] = F0
           /\ FIsZero(hold_still) => hold_done = 0
           /\ (hold_still = ParseFloat(<<3, 10>>)
                 /\ frame_duration = ParseFloat(<<1, 10>>)) => hold_done = 3

\* C5: when the accumulated total_angle is below 270 the normalisation
\* leaves every sample at its raw angle modulo 360, scales nothing, and
\* the total rotation stays the raw total_angle.
C5_NoRescaleBelow270 ==
    [][(pc = "normalize" /\ FLt(total_angle, FromInt(270)))
          => /\ angles' = [i \in 1..Len(angles) |-> PyMod(angles[i], 360)]
             /\ total_angle' = total_angle
             /\ pc' = "close"]_vars

\* C5: the samples of a run that accumulated between 180 and 270 degrees,
\* just after the normalisation.
C5_Witness ==
    /\ pc = "close"
    /\ warned
    /\ FGt(total_angle, FromInt(180))
    /\ Len(angles) >= 3
    /\ angles[2] # F0

\* C6: with frame_duration <= 0 or animation_length <= 0 the call fails as
\* InvalidParameter before any sampling: no sample is recorded, no plan is
\* produced, and no other failure is raised.
C6_RejectsBeforeSampling ==
    (pc # "main" /\ (FLe(frame_duration, F0) \/ FLe(animation_length, F0)))
        => /\ times = <<>>
           /\ angles = <<>>
           /\ pc # "done"
           /\ outcome \in {"running", "InvalidParameter", "file not found",
                           "error loading image"}

\* C7: the sampling loop stops: every iteration that leaves the loop
\* running has advanced the time towards animation_length, and the
\* iterations run so far are at most animation_length / frame_duration
\* plus one.
C7_BoundedSampling ==
    [][(pc = "integrate" /\ pc' = "integrate")
          => /\ FGt(current_time', current_time)
             /\ FLe(FromInt(Len(times')),
                    FAdd(FDiv(animation_length, frame_duration), F1))]_vars

\* C8: every frame of a finished plan, from the sampling or from the
\* hold-still loop, has an angle a with 0 <= a < 360.
C8_AnglesInRange ==
    pc = "done"
        => \A i \in 1..Len(angles) :
              FGe(angles[i], F0) /\ FLt(angles[i], FromInt(360))

\* C8: a finished plan of the rescale branch with hold-still frames and a
\* frame beyond half a turn.
C8_Witness ==
    /\ pc = "done"
    /\ ~warned
    /\ hold_done > 0
    /\ \E i \in 1..Len(angles) : FGt(angles[i], FromInt(180))

\* C9, as stated: for frame_duration > 0 the frame duration given to the
\* encoder, frame_duration * 1000 truncated, is a positive number of
\* milliseconds.
C9_PositiveMilliseconds ==
    (pc = "done" /\ FGt(frame_duration, F0)) => duration_ms >= 1

\* C9, amended: the truncated frame duration is a positive number of
\* milliseconds for frame_duration >= 0.001, and 0 for a positive
\* frame_duration below 0.001.
C9_MillisecondsFromOneUp ==
    pc = "done"
        => /\ FGe(frame_duration, ParseFloat(<<1, 1000>>)) => duration_ms >= 1
           /\ (FGt(frame_duration, F0)
                 /\ FLt(frame_duration, ParseFloat(<<1, 1000>>)))
                => duration_ms = 0

\* C9: a finished plan with a frame duration of exactly one millisecond.
C9_Witness ==
    /\ pc = "done"
    /\ frame_duration = ParseFloat(<<1, 1000>>)
    /\ duration_ms = 1

\* C10: the note about a rotation below 270 degrees is issued exactly when
\* the accumulated total_angle is below 270, and a call that issued it does
\* not fail, unless the imaging library does.
C10_WarningBelow270 ==
    /\ pc \in AfterNormalize => (warned <=> FLt(total_angle, FromInt(270)))
    /\ pc \notin AfterNormalize \union {"raised"} => ~warned
    /\ warned => (pc # "raised" \/ outcome \in RenderFailures)

\* The sampling loop of lines 43-55 from time t on, as a function of the
\* arguments of the call: <<the raw angles, the accumulated total_angle>>.
\* It is cut where the model cuts the loop.
RECURSIVE SamplesFrom(_, _, _, _)
SamplesFrom(t, total, raw, args) ==
    IF ~FLe(t, args.animation_length) \/ Len(raw) >= MaxSamples
    THEN <<raw, total>>
    ELSE Bind(CurveCall(args.curve, t, args.animation_length,
                        args.initial_speed, args.decay_factor),
              LAMBDA call :
              IF call[1] # "none" THEN <<Append(raw, total), total>>
              ELSE SamplesFrom(FAdd(t, args.frame_duration),
                               FAdd(total, FMul(call[2], args.frame_duration)),
                               Append(raw, total), args))

\* The plan as a function of the arguments alone, <<angles, milliseconds
\* per frame>>: the samples from time 0 and total 0, normalised at the 270
\* threshold, closed with a last angle of 0 and extended by the hold-still
\* frames.  It reads no variable of the model but through args.
PlanOf(args) ==
    Bind(SamplesFrom(F0, F0, <<>>, args), LAMBDA sampled :
         LET raw    == sampled[1]
             total  == sampled[2]
             normal == IF FLt(total, F270) THEN Wrapped(raw)
                       ELSE Wrapped(Scaled(raw, ScaleFactor(total)))
             closed == [normal EXCEPT ![Len(normal)] = F0]
             held   == IF FGt(args.hold_still, F0)
                       THEN [i \in 1..PyInt(FDiv(args.hold_still,
                                                  args.frame_duration))
                                |-> F0]
                       ELSE <<>>
         IN  <<closed \o held, PyInt(FMul(args.frame_duration, F1000))>>)

\* The arguments of the call in progress.
Arguments ==
    [curve |-> curve, initial_speed |-> initial_speed,
     decay_factor |-> decay_factor, animation_length |-> animation_length,
     frame_duration |-> frame_duration, hold_still |-> hold_still]

\* C11: the plan of a call is determined by the curve, the curve's
\* parameters, animation_length, frame_duration and hold_still: every call
\* that finishes, the first and the second with the same arguments, however
\* it was entered and whatever the image and the encoder did, has the plan
\* that PlanOf computes from those arguments alone; so the second call
\* has the number of frames, the angle at every index and the frame
\* duration of the first.
C11_SamePlanTwice ==
    pc = "done"
        => /\ <<angles, duration_ms>> = PlanOf(Arguments)
           /\ num_frames = Len(angles)
           /\ first_plan # <<>>
                 => /\ Len(angles) = Len(first_plan[1])
                    /\ num_frames = Len(first_plan[1])
                    /\ \A i \in 1..Len(angles) :
                          angles[i] = first_plan[1][i]
                    /\ duration_ms = first_plan[2]

\* C11: the second of two calls has finished a plan of the rescale branch
\* with hold-still frames whose frames are not all at 0.
C11_Witness ==
    /\ pc = "done"
    /\ first_plan # <<>>
    /\ ~warned
    /\ hold_done > 0
    /\ \E i \in 1..Len(angles) : angles[i] # F0

\* C12: a call with hold_still < 0, its other parameters valid, is
\* rejected as InvalidParameter: it finishes no plan, reports no frame
\* count and no total duration, and ends in no other way.
C12_RejectsNegativeHold ==
    (pc # "main" /\ FGt(animation_length, F0) /\ FGt(frame_duration, F0)
                 /\ FLt(hold_still, F0))
        => /\ pc # "done"
           /\ num_frames = -1
           /\ outcome \in {"running", "InvalidParameter", "file not found",
                           "error loading image"}

\* C13: with a fixed upper bound on the samples, of a thousand million at
\* most, a call whose animation_length / frame_duration exceeds the bound
\* fails before it builds the sample sequences: it records no time and no
\* angle.
C13_FailsFastOnTooManySamples ==
    (pc # "main" /\ FGt(frame_duration, F0)
                 /\ FGt(FDiv(animation_length, frame_duration),
                         FromInt(1000000000)))
        => /\ times = <<>>
           /\ angles = <<>>

\* C14: each of the six curve functions returns a velocity that is not
\* negative for t >= 0, animation_length > 0 and initial_speed > 0, also
\* for t beyond animation_length.
C14_NonNegativeVelocity ==
    curve_call # <<>> => FGe(speed_returned, F0)

\* A sequence of whole numbers as floats.
Floats(ns) == [i \in 1..Len(ns) |-> FromInt(ns[i])]

\* Scenario A: the linear curve, initial_speed = 720, animation_length =
\* 1.0, frame_duration = 0.5, no hold-still time.
ScenarioA ==
    /\ pc # "main"
    /\ curve = "linear"
    /\ initial_speed = FromInt(720)
    /\ animation_length = F1
    /\ frame_duration = FromRatio(1, 2)
    /\ hold_still = F0

\* C15, as stated: in scenario A the raw angles are [0, 360] and
\* total_angle is 360, the rescale factor is 1.0 (the rescaled angles are
\* the raw ones), and the plan is the two frames (0, 500 ms), (0, 500 ms).
C15_ScenarioA_TwoFrames ==
    ScenarioA
        => /\ pc = "normalize" => /\ angles = Floats(<<0, 360>>)
                                  /\ total_angle = FromInt(360)
           /\ pc = "wrap" => angles = Floats(<<0, 360>>)
           /\ pc = "done" => /\ angles = Floats(<<0, 0>>)
                             /\ num_frames = 2
                             /\ duration_ms = 500

\* C15, amended: in scenario A the raw angles are [0, 360, 540] and
\* total_angle is 540, every angle is multiplied by 720 / 540 (giving 0,
\* 480, 720), and the plan is the three frames (0, 500 ms), (120, 500 ms),
\* (0, 500 ms), without the note about a rotation below 270.
C15_ScenarioA_ThreeFrames ==
    ScenarioA
        => /\ pc = "normalize" => /\ angles = Floats(<<0, 360, 540>>)
                                  /\ total_angle = FromInt(540)
           /\ pc = "wrap" => /\ angles = Floats(<<0, 480, 720>>)
                             /\ angles[2] = FMul(FromInt(360),
                                                 FromRatio(720, 540))
                             /\ total_angle = FromInt(720)
           /\ pc = "done" => /\ angles = Floats(<<0, 120, 0>>)
                             /\ num_frames = 3
                             /\ duration_ms = 500
                             /\ ~warned

\* C15: the finished plan of scenario A.
C15_Witness ==
    /\ ScenarioA
    /\ pc = "done"
    /\ num_frames = 3

\* Scenario B: the linear curve, initial_speed = 100, animation_length =
\* 1.0, frame_duration = 1.0, no hold-still time.
ScenarioB ==
    /\ pc # "main"
    /\ curve = "linear"
    /\ initial_speed = FromInt(100)
    /\ animation_length = F1
    /\ frame_duration = F1
    /\ hold_still = F0

\* C16: in scenario B the raw angles are [0, 100] and total_angle is 100,
\* the angles are not rescaled, the note about a rotation below 270 is
\* issued, and the plan is the two frames (0, 1000 ms), (0, 1000 ms), the
\* second forced from 100 to 0.
C16_ScenarioB ==
    ScenarioB
        => /\ pc = "normalize" => /\ angles = Floats(<<0, 100>>)
                                  /\ total_angle = FromInt(100)
           /\ pc # "wrap"
           /\ pc = "close" => /\ angles = Floats(<<0, 100>>)
                              /\ warned
           /\ pc \in {"hold", "done"} => /\ angles = Floats(<<0, 0>>)
                                         /\ total_angle = FromInt(100)
                                         /\ warned
           /\ pc = "done" => /\ num_frames = 2
                             /\ duration_ms = 1000

\* C16: the finished plan of scenario B.
C16_Witness ==
    /\ ScenarioB
    /\ pc = "done"
    /\ warned
    /\ num_frames = 2

\* C17: for valid input and each of the six curves, the angles the
\* sampling loop records start at 0 and never decrease from one sample to
\* the next, and the accumulated total_angle is not below the last of them.
C17_RawAnglesNonDecreasing ==
    (pc \in {"integrate", "normalize"} /\ ValidInput /\ angles # <<>>)
        => /\ angles[1] = F0
           /\ \A i \in 1..(Len(angles) - 1) : FLe(angles[i], angles[i + 1])
           /\ FLe(angles[Len(angles)], total_angle)

\* C17: the sampling loop has ended with four samples or more, the last
\* above the first.
C17_Witness ==
    /\ pc = "normalize"
    /\ ValidInput
    /\ Len(angles) >= 4
    /\ FGt(angles[Len(angles)], angles[1])

\* C18: the times the sampling loop records start at 0, are not negative,
\* increase strictly, each the one before plus frame_duration, and none is
\* above animation_length.
C18_SampleTimes ==
    IntegrationFrames >= 1
        => /\ times[1] = F0
           /\ \A i \in 1..IntegrationFrames :
                 FGe(times[i], F0) /\ FLe(times[i], animation_length)
           /\ \A i \in 1..(IntegrationFrames - 1) :
                 /\ FGt(times[i + 1], times[i])
                 /\ times[i + 1] = FAdd(times[i], frame_duration)

\* C19: in the rescale branch the target that becomes total_angle is a
\* multiple of 360 within 180 of the accumulated total_angle, every angle
\* is multiplied by the same factor target / total_angle, and the exact
\* halves go to the even count: 540 and 900 both to two rotations, 720.
C19_NearestMultiple ==
    [][(pc = "normalize" /\ FGe(total_angle, FromInt(270)))
          => LET rotations == PyInt(FDiv(total_angle', FromInt(360)))
             IN  /\ pc' = "wrap"
                 /\ total_angle' = FromInt(360 * rotations)
                 /\ FGe(total_angle, FromInt(360 * rotations - 180))
                 /\ FLe(total_angle, FromInt(360 * rotations + 180))
                 /\ Len(angles') = Len(angles)
                 /\ \A i \in 1..Len(angles) :
                       angles'[i] = FMul(angles[i],
                                         FDiv(total_angle', total_angle))
                 /\ total_angle = FromInt(540) => rotations = 2
                 /\ total_angle = FromInt(900) => rotations = 2]_vars

\* C19: the angles of a run that accumulated exactly 900 degrees, rescaled
\* to two rotations.
C19_Witness ==
    /\ pc = "wrap"
    /\ initial_speed = FromInt(1200)
    /\ Len(angles) = 3
    /\ angles[3] = FromInt(720)
    /\ total_angle = FromInt(720)

\* C20: when the accumulated total_angle is exactly 0 the normalisation
\* takes the branch that does not divide by total_angle and issues the
\* note about a rotation below 270, and from then on every frame has
\* angle 0.
C20_ZeroRotation ==
    /\ [](((pc \in {"close", "hold", "done"}) /\ total_angle = F0)
             => /\ warned
                /\ \A i \in 1..Len(angles) : angles[i] = F0)
    /\ [][(pc = "normalize" /\ total_angle = F0)
             => (pc' = "close" /\ warned' /\ total_angle' = F0)]_vars

\* C20: a finished plan of three frames or more, with hold-still frames,
\* of a run that accumulated no rotation.
C20_Witness ==
    /\ pc = "done"
    /\ total_angle = F0
    /\ warned
    /\ IntegrationFrames >= 3
    /\ hold_done > 0

\* C21: linear_slowdown(t, L, v0) is v0 at t = 0, strictly positive for
\* 0 <= t < L, exactly 0 at t = L and 0 for every t > L.
C21_LinearReachesZero ==
    (curve_call # <<>> /\ curve_call[1] = "linear")
        => LET t  == curve_call[2]
               L  == curve_call[3]
               v0 == curve_call[4]
           IN  /\ FIsZero(t) => speed_returned = v0
               /\ FLt(t, L) => FGt(speed_returned, F0)
               /\ FGe(t, L) => FIsZero(speed_returned)

\* C22: exponential_slowdown_with_min returns what exponential_slowdown
\* returns for t <= 0.7 * animation_length, and for a later t what
\* exponential_slowdown returns at t = 0.7 * animation_length, with the same
\* initial_speed and decay_factor.
C22_FlooredExponential ==
    (curve_call # <<>> /\ curve_call[1] = "exponential_with_min")
        => LET t         == curve_call[2]
               L         == curve_call[3]
               v0        == curve_call[4]
               d         == curve_call[5]
               threshold == FMul(FromRatio(7, 10), L)
           IN  speed_returned =
                   IF FLe(t, threshold)
                   THEN exponential_slowdown(t, L, v0, d)
                   ELSE exponential_slowdown(threshold, L, v0, d)

\* C22: a call past 0.7 of the length, where the floor is above the
\* exponential curve.
C22_Witness ==
    /\ curve_call # <<>>
    /\ curve_call[1] = "exponential_with_min"
    /\ FGt(curve_call[2], FMul(FromRatio(7, 10), curve_call[3]))
    /\ FGt(speed_returned,
           exponential_slowdown(curve_call[2], curve_call[3], curve_call[4],
                                curve_call[5]))

\* The six curve kinds of the specification, by tag.
CurveKinds == Curves \cup {"exponential_floored"}

\* The evaluator that belongs to a curve kind.
EvaluatorOf(kind, t, L, v0, d) ==
    IF kind = "exponential_floored"
    THEN exponential_slowdown_with_min(t, L, v0, d)
    ELSE slowdown_curve(kind, t, L, v0, d)

\* C23: each of the six curve kinds exponential, exponential_floored,
\* linear, quadratic, cosine and smooth_stop is accepted as --curve and the
\* planner integrates the matching evaluator with the caller's
\* initial_speed and decay_factor; any other tag is rejected before a plan
\* is built.
C23_SixCurveKinds ==
    /\ []((pc # "main" /\ curve \in CurveKinds) => outcome # "SystemExit")
    /\ []((pc # "main" /\ curve \in OtherCurves \ CurveKinds)
             => (pc = "raised" /\ outcome = "SystemExit" /\ angles = <<>>))
    /\ [][(pc = "integrate" /\ pc' = "integrate" /\ curve \in CurveKinds)
             => total_angle' =
                    FAdd(total_angle,
                         FMul(EvaluatorOf(curve, current_time,
                                          animation_length, initial_speed,
                                          decay_factor),
                              frame_duration))]_vars

\* The velocity the curve returned at the last sample time.
LastVelocity ==
    CurveValue(curve, times[Len(times)], animation_length, initial_speed,
               decay_factor)

\* C24 as claimed: the total_angle that is compared with 270 is the last
\* recorded raw angle plus velocity(last sample time) * frame_duration; it
\* is at least the last recorded raw angle, and equal to it exactly when
\* that velocity is 0.
C24_EqualOnlyAtZeroVelocity ==
    (pc = "normalize" /\ angles # <<>>)
        => LET last == angles[Len(angles)]
           IN  /\ total_angle =
                      FAdd(last, FMul(LastVelocity, frame_duration))
               /\ FGe(total_angle, last)
               /\ (FCmp(total_angle, last) = 0) <=> FIsZero(LastVelocity)

\* C24: the total_angle that is compared with 270 is the last recorded raw
\* angle plus velocity(last sample time) * frame_duration; it is at least
\* the last recorded raw angle, and equal to it whenever that velocity is 0.
C24_TotalAfterLastIncrement ==
    (pc = "normalize" /\ angles # <<>>)
        => LET last == angles[Len(angles)]
           IN  /\ total_angle =
                      FAdd(last, FMul(LastVelocity, frame_duration))
               /\ FGe(total_angle, last)
               /\ FIsZero(LastVelocity) => FCmp(total_angle, last) = 0

\* C24: the sampling loop has ended on a sample where the curve, started at
\* a positive speed, has come to rest.
C24_Witness ==
    /\ pc = "normalize"
    /\ Len(angles) >= 2
    /\ FGt(initial_speed, F0)
    /\ FIsZero(LastVelocity)
    /\ FCmp(total_angle, angles[Len(angles)]) = 0
    /\ FGt(total_angle, F0)

\* C25: whenever the rescale branch is taken (total_angle >= 270) the
\* rotation count is at least 1, the target is at least 360, the divisor
\* total_angle is not zero and the scale factor is strictly positive, so
\* every angle that was positive stays positive.
C25_RescaleKeepsRotation ==
    [][(pc = "normalize" /\ FGe(total_angle, FromInt(270)))
          => /\ pc' = "wrap"
             /\ ~FIsZero(total_angle)
             /\ PyRound(FDiv(total_angle, FromInt(360))) >= 1
             /\ FGe(total_angle', FromInt(360))
             /\ FGt(FDiv(total_angle', total_angle), F0)
             /\ \A i \in 1..Len(angles) :
                   FGt(angles[i], F0) => FGt(angles'[i], F0)]_vars

\* C25: the rescale branch has been taken with the smallest target, one
\* turn, and the last of three or more angles is still positive.
C25_Witness ==
    /\ pc = "wrap"
    /\ total_angle = FromInt(360)
    /\ Len(angles) >= 3
    /\ FGt(angles[Len(angles)], F0)

\* C26: in the rescale branch (total_angle >= 270) the scale factor
\* target / total_angle is above 2/3 and at most 4/3.  The binary64 values
\* of 2/3 and 4/3 lie just below the fractions, so the two comparisons of
\* floats decide the comparisons with the fractions.
C26_ScaleFactorBounded ==
    [][(pc = "normalize" /\ FGe(total_angle, FromInt(270)))
          => LET scale_factor == FDiv(total_angle', total_angle)
             IN  /\ pc' = "wrap"
                 /\ FGt(scale_factor, FromRatio(2, 3))
                 /\ FLe(scale_factor, FromRatio(4, 3))]_vars

\* C26: a rotation of one turn and a half has been stretched to two turns,
\* by the largest factor, 4/3.
C26_Witness ==
    /\ pc = "wrap"
    /\ initial_speed = FromInt(720)
    /\ total_angle = FromInt(720)
    /\ Len(angles) = 3
    /\ angles[2] = FMul(FromInt(360), FromRatio(4, 3))
    /\ angles[3] = FMul(FromInt(540), FromRatio(4, 3))

\* C27: in every plan, in the branch below 270 and in the rescale branch,
\* the first frame has angle 0, from the branch on; once the plan is closed
\* the first and the last frame have the same angle, 0, also in a plan of a
\* single integration sample (frame_duration > animation_length).
C27_FirstFrameZero ==
    /\ (pc \in AfterNormalize /\ angles # <<>>) => angles[1] = F0
    /\ (pc \in {"hold", "done"})
           => /\ angles # <<>>
              /\ angles[1] = F0
              /\ angles[Len(angles)] = angles[1]

\* C27: a finished plan that consists of a single integration sample.
C27_Witness ==
    /\ pc = "done"
    /\ FGt(frame_duration, animation_length)
    /\ Len(angles) = 1
    /\ angles[1] = F0
    /\ FGt(total_angle, F0)

\* C28: after every step of the sampling loop and of the hold-still loop
\* times and angles have the same length; every recorded time but the first
\* is the one before plus frame_duration, so the first hold-still frame
\* follows the last integration sample by frame_duration and each later
\* one the frame before it, with no gap and no repeated time; the steps of
\* the normalisation change neither the times nor the number of angles.
C28_UniformTimeGrid ==
    /\ [](/\ Len(times) = Len(angles)
          /\ \A i \in 2..Len(times) :
                times[i] = FAdd(times[i - 1], frame_duration)
          /\ \A i \in (IntegrationFrames + 1)..Len(times) :
                i > 1 => FGt(times[i], times[i - 1]))
    /\ [][(pc \in {"normalize", "wrap", "close"})
             => (times' = times /\ Len(angles') = Len(angles))]_vars

\* C28: a finished plan of three or more integration samples followed by
\* two or more hold-still frames.
C28_Witness ==
    /\ pc = "done"
    /\ IntegrationFrames >= 3
    /\ hold_done >= 2
    /\ Len(times) = IntegrationFrames + hold_done
    /\ times[IntegrationFrames + 1] =
           FAdd(times[IntegrationFrames], frame_duration)

\* An exact sum as a number that the comparisons accept.
ExactSum(a, b) ==
    LET x == FExactAdd(a, b) IN [s |-> x[1], m |-> x[2], e |-> x[3]]

\* n * a without rounding, for a natural number n.
ExactTimes(n, a) ==
    IF n = 0 \/ FIsZero(a) THEN FZero
    ELSE [s |-> a.s, m |-> BNMul(BN(n), a.m), e |-> a.e]

\* C29: for valid input the reported total duration is animation_length +
\* hold_still, and the played duration N * frame_duration of the N frames
\* of the plan lies within one frame of it: above animation_length +
\* hold_still - frame_duration and at most animation_length + hold_still +
\* frame_duration, as numbers, without rounding.
C29_PlayedDuration ==
    (pc = "done" /\ ValidInput)
        => LET played == ExactTimes(Len(angles), frame_duration)
               asked  == ExactSum(animation_length, hold_still)
           IN  /\ total_duration = FAdd(animation_length, hold_still)
               /\ num_frames = Len(angles)
               /\ FGt(played, ExactSum(asked, FNeg(frame_duration)))
               /\ FLe(played, ExactSum(asked, frame_duration))

\* C29 with each side computed in binary64, as the program would compute it.
C29_PlayedDurationRounded ==
    (pc = "done" /\ ValidInput)
        => LET played == FMul(FromInt(Len(angles)), frame_duration)
           IN  /\ FGt(played, FSub(total_duration, frame_duration))
               /\ FLe(played, FAdd(total_duration, frame_duration))

\* C30: for rotation_step >= 1 both constant-step generators make
\* 360 // rotation_step frames, frame i (from 0) at angle i * rotation_step,
\* every angle in [0, 360); the angle that would follow the last frame is
\* 360 exactly when rotation_step divides 360, and there is at least one
\* frame exactly when rotation_step <= 360.
C30_ConstantStepFrames ==
    (gen_pc \in {"rotate", "done"} /\ rotation_step >= 1)
        => /\ num_rotations = 360 \div rotation_step
           /\ Len(frames) <= num_rotations
           /\ \A i \in 1..Len(frames) :
                 /\ frames[i] = (i - 1) * rotation_step
                 /\ frames[i] >= 0
                 /\ frames[i] < 360
           /\ gen_pc = "done"
                 => /\ Len(frames) = num_rotations
                    /\ (Len(frames) * rotation_step = 360)
                          <=> (360 % rotation_step = 0)
                    /\ (Len(frames) >= 1) <=> (rotation_step <= 360)

\* C30: rotate_image has finished with a step that does not divide 360:
\* 51 frames, the last at 350 degrees, 3 degrees short of a full turn.
C30_Witness ==
    /\ gen_pc = "done"
    /\ generator = "rotate_image"
    /\ rotation_step = 7
    /\ Len(frames) = 51
    /\ frames[51] = 350

=============================================================================
